---- MODULE Spec2Model ----
(***************************************************************************)
(* rsyslog_exporter: the classifier (internal/rsyslog/stat_type.go), the   *)
(* decoders (internal/rsyslog), the point store (internal/model) and the   *)
(* exporter's ingest loop and collector (internal/exporter/exporter.go).   *)
(*                                                                         *)
(* Text is a sequence of atoms.  An atom is an indivisible piece of text   *)
(* (a punctuation character or a word); the text denoted by a sequence is  *)
(* the concatenation of its atoms.  Substring search, prefix tests,        *)
(* splitting and JSON parsing all work on these sequences.                 *)
(***************************************************************************)
EXTENDS Integers, Sequences, FiniteSets, TLC

\* ------------------------------------------------------------------ bounds
MaxRecords == 3
MaxScrapeRecords == 2
NumScrapers == 1
MaxSignals == 2
MaxClientOps == 3
MaxRepeats == 2
MaxBadRecords == 2
MaxMainRecords == 1
MaxDecodeRecords == 2
MaxStallRecords == 1
MaxMixRecords == 2
MaxSwapRecords == 2
MaxRescrapes == 1
NumClients == 2

\* ------------------------------------------------------------------- text
Q == "\""
SP == " "
LB == "{"
RB == "}"
COLON == ":"
COMMA == ","

IntAtoms == {"0", "1", "2"}
FloatAtoms == {"1.5"}

IntOf(a) == CASE a = "0" -> 0 [] a = "1" -> 1 [] a = "2" -> 2 [] OTHER -> 0

\* strings.Contains(line, needle)
Contains(line, needle) ==
    \E i \in 1..(Len(line) - Len(needle) + 1) :
        SubSeq(line, i, i + Len(needle) - 1) = needle

\* strings.HasPrefix(s, prefix)
HasPrefix(s, prefix) ==
    /\ Len(s) >= Len(prefix)
    /\ SubSeq(s, 1, Len(prefix)) = prefix

\* strings.TrimPrefix(s, prefix)
TrimPrefix(s, prefix) ==
    IF HasPrefix(s, prefix) THEN SubSeq(s, Len(prefix) + 1, Len(s)) ELSE s

\* index of the first occurrence of atom a in s at or after i; Len(s)+1 if none
RECURSIVE IndexFrom(_, _, _)
IndexFrom(s, a, i) ==
    IF i > Len(s) THEN Len(s) + 1
    ELSE IF s[i] = a THEN i
    ELSE IndexFrom(s, a, i + 1)

\* bytes.SplitN(s, []byte(" "), n) for n > 0: at most n pieces, the last one
\* is the unsplit remainder
RECURSIVE SplitN_All(_, _)
SplitN_All(s, n) ==
    LET i == IndexFrom(s, SP, 1) IN
    IF i > Len(s) THEN <<s>>
    ELSE <<SubSeq(s, 1, i - 1)>> \o SplitN_All(SubSeq(s, i + 1, Len(s)), n)

RECURSIVE SplitN(_, _)
SplitN(s, n) ==
    LET i == IndexFrom(s, SP, 1) IN
    IF n <= 1 \/ i > Len(s) THEN <<s>>
    ELSE <<SubSeq(s, 1, i - 1)>> \o SplitN(SubSeq(s, i + 1, Len(s)), n - 1)

\* ------------------------------------------------------------------- JSON
\* encoding/json as used by the repository: objects, strings, numbers, null.
NoVal == [t |-> "none", s |-> <<>>, n |-> 0, m |-> <<>>]
StrVal(x) == [t |-> "str", s |-> x, n |-> 0, m |-> <<>>]
NumVal(x) == [t |-> "num", s |-> <<>>, n |-> x, m |-> <<>>]
FloatVal == [t |-> "float", s |-> <<>>, n |-> 0, m |-> <<>>]
NullVal == [t |-> "null", s |-> <<>>, n |-> 0, m |-> <<>>]
ObjVal(x) == [t |-> "obj", s |-> <<>>, n |-> 0, m |-> x]

Fail == [ok |-> FALSE, val |-> NoVal, pos |-> 0]
Okay(v, p) == [ok |-> TRUE, val |-> v, pos |-> p]

RECURSIVE SkipWS(_, _)
SkipWS(s, i) ==
    IF i <= Len(s) /\ s[i] = SP THEN SkipWS(s, i + 1) ELSE i

ParseString(s, i) ==
    IF i > Len(s) \/ s[i] # Q THEN Fail
    ELSE LET j == IndexFrom(s, Q, i + 1) IN
         IF j > Len(s) THEN Fail
         ELSE Okay(StrVal(SubSeq(s, i + 1, j - 1)), j + 1)

RECURSIVE ParseValue(_, _)
RECURSIVE ParseMembers(_, _, _)

ParseValue(s, i) ==
    IF i > Len(s) THEN Fail
    ELSE IF s[i] = Q THEN ParseString(s, i)
    ELSE IF s[i] \in IntAtoms THEN Okay(NumVal(IntOf(s[i])), i + 1)
    ELSE IF s[i] \in FloatAtoms THEN Okay(FloatVal, i + 1)
    ELSE IF s[i] = "null" THEN Okay(NullVal, i + 1)
    ELSE IF s[i] = LB THEN
         LET j == SkipWS(s, i + 1) IN
         IF j <= Len(s) /\ s[j] = RB THEN Okay(ObjVal(<<>>), j + 1)
         ELSE ParseMembers(s, j, <<>>)
    ELSE Fail

\* i is at the first non-blank atom of a member; acc holds the members so far
ParseMembers(s, i, acc) ==
    LET k == ParseString(s, i) IN
    IF ~k.ok THEN Fail
    ELSE LET c == SkipWS(s, k.pos) IN
    IF c > Len(s) \/ s[c] # COLON THEN Fail
    ELSE LET v == ParseValue(s, SkipWS(s, c + 1)) IN
    IF ~v.ok THEN Fail
    ELSE LET e == SkipWS(s, v.pos)
             acc2 == Append(acc, [k |-> k.val.s, v |-> v.val]) IN
    IF e > Len(s) THEN Fail
    ELSE IF s[e] = RB THEN Okay(ObjVal(acc2), e + 1)
    ELSE IF s[e] = COMMA THEN ParseMembers(s, SkipWS(s, e + 1), acc2)
    ELSE Fail

\* the whole input must be one JSON value surrounded by blanks only
ParseJSON(s) ==
    LET v == ParseValue(s, SkipWS(s, 1)) IN
    IF v.ok /\ SkipWS(s, v.pos) = Len(s) + 1 THEN v ELSE Fail

\* value of the last member named key (a later duplicate overwrites), or NoVal
RECURSIVE Lookup(_, _, _)
Lookup(m, key, i) ==
    IF i = 0 THEN NoVal
    ELSE IF m[i].k = key THEN m[i].v
    ELSE Lookup(m, key, i - 1)

Member(obj, key) == Lookup(obj.m, key, Len(obj.m))

\* ------------------------------------------------------------- classifier
TypeUnknown == "TypeUnknown"
TypeAction == "TypeAction"
TypeInput == "TypeInput"
TypeQueue == "TypeQueue"
TypeResource == "TypeResource"
TypeDynStat == "TypeDynStat"
TypeDynafileCache == "TypeDynafileCache"
TypeInputIMDUP == "TypeInputIMDUP"
TypeForward == "TypeForward"
TypeKubernetes == "TypeKubernetes"
TypeOmkafka == "TypeOmkafka"

Types == {TypeUnknown, TypeAction, TypeInput, TypeQueue, TypeResource,
          TypeDynStat, TypeDynafileCache, TypeInputIMDUP, TypeForward,
          TypeKubernetes, TypeOmkafka}

\* json.Unmarshal(buf, &obj) with obj a map[string]any: the text must be a
\* JSON object (or null, which leaves the map nil)
\* json.Unmarshal(buf, &obj), obj a map[string]any: r is the parsed text
MapFrom(r) ==
    IF r.ok /\ r.val.t = "obj" THEN [ok |-> TRUE, obj |-> r.val]
    ELSE IF r.ok /\ r.val.t = "null" THEN [ok |-> TRUE, obj |-> ObjVal(<<>>)]
    ELSE [ok |-> FALSE, obj |-> ObjVal(<<>>)]

UnmarshalMap(buf) == MapFrom(ParseJSON(buf))

NameRule_NoOmkafka(nm) ==
    IF nm.t # "str" THEN TypeUnknown
    ELSE IF HasPrefix(nm.s, <<"mmkubernetes">>) THEN TypeKubernetes
    ELSE IF nm.s = <<"omfwd">> THEN TypeForward
    ELSE TypeUnknown

\* s, ok := obj["name"].(string) and the rules on s; nm is obj["name"]
NameRule(nm) ==
    IF nm.t # "str" THEN TypeUnknown
    ELSE IF HasPrefix(nm.s, <<"mmkubernetes">>) THEN TypeKubernetes
    ELSE IF nm.s = <<"omkafka">> THEN TypeOmkafka
    ELSE IF nm.s = <<"omfwd">> THEN TypeForward
    ELSE TypeUnknown

NameOf_NoOmkafka(u) ==
    IF ~u.ok THEN TypeUnknown ELSE NameRule_NoOmkafka(Member(u.obj, <<"name">>))

\* u is the outcome of json.Unmarshal
NameOf(u) ==
    IF ~u.ok THEN TypeUnknown ELSE NameRule(Member(u.obj, <<"name">>))

detectByName_NoOmkafka(buf) == NameOf_NoOmkafka(UnmarshalMap(buf))

detectByName(buf) == NameOf(UnmarshalMap(buf))

OmkafkaNeedle == <<Q, "name", Q, COLON, SP, Q, "omkafka", Q>>

detectBySubstring_QueueFirst(line) ==
    IF Contains(line, OmkafkaNeedle) THEN TypeOmkafka
    ELSE IF Contains(line, <<"enqueued">>) THEN TypeQueue
    ELSE IF Contains(line, <<"submitted">>) THEN TypeInput
    ELSE IF Contains(line, <<"called.recvmmsg">>) THEN TypeInputIMDUP
    ELSE IF Contains(line, <<"utime">>) THEN TypeResource
    ELSE IF Contains(line, <<"dynstats">>) THEN TypeDynStat
    ELSE IF Contains(line, <<"dynafile", SP, "cache">>) THEN TypeDynafileCache
    ELSE IF Contains(line, <<"omfwd">>) THEN TypeForward
    ELSE IF Contains(line, <<"mmkubernetes">>) THEN TypeKubernetes
    ELSE TypeUnknown

detectBySubstring(line) ==
    IF Contains(line, OmkafkaNeedle) THEN TypeOmkafka
    ELSE IF Contains(line, <<"submitted">>) THEN TypeInput
    ELSE IF Contains(line, <<"called.recvmmsg">>) THEN TypeInputIMDUP
    ELSE IF Contains(line, <<"enqueued">>) THEN TypeQueue
    ELSE IF Contains(line, <<"utime">>) THEN TypeResource
    ELSE IF Contains(line, <<"dynstats">>) THEN TypeDynStat
    ELSE IF Contains(line, <<"dynafile", SP, "cache">>) THEN TypeDynafileCache
    ELSE IF Contains(line, <<"omfwd">>) THEN TypeForward
    ELSE IF Contains(line, <<"mmkubernetes">>) THEN TypeKubernetes
    ELSE TypeUnknown

\* if t := detectByName(buf); t != TypeUnknown { return t }
\* return detectBySubstring(line)
NameOrSubstring(t, text) ==
    IF t # TypeUnknown THEN t ELSE detectBySubstring(text)

ProcessedOrSubstring(t, text) ==
    IF t # TypeUnknown THEN t
    ELSE IF Contains(text, <<"processed">>) THEN TypeAction
    ELSE detectBySubstring(text)

StatType_NameFirst(buf) == ProcessedOrSubstring(detectByName(buf), buf)

StatType(buf) ==
    IF Contains(buf, <<"processed">>) THEN TypeAction
    ELSE NameOrSubstring(detectByName(buf), buf)

\* ----------------------------------------------------------------- points
Counter == "Counter"
Gauge == "Gauge"

\* model.Point (Description carries no behaviour and is left out)
Point(name, type, value, labelName, labelValue) ==
    [Name |-> name, Type |-> type, Value |-> value,
     LabelName |-> labelName, LabelValue |-> labelValue]

\* Point.Key: the name, or name "." label value when the label value is set
Key(p) ==
    IF p.LabelValue = <<>> THEN p.Name ELSE p.Name \o <<".">> \o p.LabelValue

\* --------------------------------------------------------------- decoders
\* One row per struct field that becomes a point: JSON key, metric name,
\* type, label name and label value (UseName: the record's name).
UseName == <<"$name">>
F(key, name, type, label, lv) ==
    [key |-> <<key>>, name |-> <<name>>, type |-> type, label |-> label, lv |-> lv]

ActionFields == <<
    F("processed", "action_processed", Counter, "action", UseName),
    F("failed", "action_failed", Counter, "action", UseName),
    F("suspended", "action_suspended", Counter, "action", UseName),
    F("suspended.duration", "action_suspended_duration", Counter, "action", UseName),
    F("resumed", "action_resumed", Counter, "action", UseName) >>

InputFields == <<
    F("submitted", "input_submitted", Counter, "input", UseName) >>

InputIMUDPFields == <<
    F("called.recvmmsg", "input_called_recvmmsg", Counter, "worker", UseName),
    F("called.recvmsg", "input_called_recvmsg", Counter, "worker", UseName),
    F("msgs.received", "input_received", Counter, "worker", UseName) >>

QueueFields_SizeAsCounter == <<
    F("size", "queue_size", Counter, "queue", UseName),
    F("enqueued", "queue_enqueued", Counter, "queue", UseName),
    F("full", "queue_full", Counter, "queue", UseName),
    F("discarded.full", "queue_discarded_full", Counter, "queue", UseName),
    F("discarded.nf", "queue_discarded_not_full", Counter, "queue", UseName),
    F("maxqsize", "queue_max_size", Counter, "queue", UseName) >>

QueueFields == <<
    F("size", "queue_size", Gauge, "queue", UseName),
    F("enqueued", "queue_enqueued", Counter, "queue", UseName),
    F("full", "queue_full", Counter, "queue", UseName),
    F("discarded.full", "queue_discarded_full", Counter, "queue", UseName),
    F("discarded.nf", "queue_discarded_not_full", Counter, "queue", UseName),
    F("maxqsize", "queue_max_size", Gauge, "queue", UseName) >>

ResourceFields == <<
    F("utime", "resource_utime", Counter, "resource", UseName),
    F("stime", "resource_stime", Counter, "resource", UseName),
    F("maxrss", "resource_maxrss", Gauge, "resource", UseName),
    F("minflt", "resource_minflt", Counter, "resource", UseName),
    F("majflt", "resource_majflt", Counter, "resource", UseName),
    F("inblock", "resource_inblock", Counter, "resource", UseName),
    F("oublock", "resource_oublock", Counter, "resource", UseName),
    F("nvcsw", "resource_nvcsw", Counter, "resource", UseName),
    F("nivcsw", "resource_nivcsw", Counter, "resource", UseName) >>

DfcFields == <<
    F("requests", "dynafile_cache_requests", Counter, "cache", UseName),
    F("level0", "dynafile_cache_level0", Counter, "cache", UseName),
    F("missed", "dynafile_cache_missed", Counter, "cache", UseName),
    F("evicted", "dynafile_cache_evicted", Counter, "cache", UseName),
    F("maxused", "dynafile_cache_maxused", Counter, "cache", UseName),
    F("closetimeouts", "dynafile_cache_closetimeouts", Counter, "cache", UseName) >>

ForwardFields == <<
    F("bytes.sent", "forward_bytes_total", Counter, "destination", UseName) >>

KubernetesFields == <<
    F("namespacemetadatasuccess", "kubernetes_namespace_metadata_success_total", Counter, "url", UseName),
    F("namespacemetadatanotfound", "kubernetes_namespace_metadata_notfound_total", Counter, "url", UseName),
    F("namespacemetadatabusy", "kubernetes_namespace_metadata_busy_total", Counter, "url", UseName),
    F("namespacemetadataerror", "kubernetes_namespace_metadata_error_total", Counter, "url", UseName),
    F("podmetadatasuccess", "kubernetes_pod_metadata_success_total", Counter, "url", UseName),
    F("podmetadatanotfound", "kubernetes_pod_metadata_notfound_total", Counter, "url", UseName),
    F("podmetadatabusy", "kubernetes_pod_metadata_busy_total", Counter, "url", UseName),
    F("podmetadataerror", "kubernetes_pod_metadata_error_total", Counter, "url", UseName),
    F("recordseen", "kubernetes_record_seen_total", Counter, "url", UseName) >>

OmkafkaFields == <<
    F("submitted", "input_submitted", Counter, "input", <<"omkafka">>),
    F("submitted", "omkafka_messages", Counter, "type", <<"submitted">>),
    F("maxoutqsize", "omkafka_maxoutqsize", Counter, "", <<>>),
    F("failures", "omkafka_messages", Counter, "type", <<"failures">>),
    F("topicdynacache.skipped", "omkafka_topicdynacache", Counter, "type", <<"skipped">>),
    F("topicdynacache.miss", "omkafka_topicdynacache", Counter, "type", <<"miss">>),
    F("topicdynacache.evicted", "omkafka_topicdynacache", Counter, "type", <<"evicted">>),
    F("acked", "omkafka_messages", Counter, "type", <<"acked">>),
    F("failures_msg_too_large", "omkafka_failures", Counter, "type", <<"msg_too_large">>),
    F("failures_unknown_topic", "omkafka_failures", Counter, "type", <<"unknown_topic">>),
    F("failures_queue_full", "omkafka_failures", Counter, "type", <<"queue_full">>),
    F("failures_unknown_partition", "omkafka_failures", Counter, "type", <<"unknown_partition">>),
    F("failures_other", "omkafka_failures", Counter, "type", <<"other">>),
    F("errors_timed_out", "omkafka_errors", Counter, "type", <<"timed_out">>),
    F("errors_transport", "omkafka_errors", Counter, "type", <<"transport">>),
    F("errors_broker_down", "omkafka_errors", Counter, "type", <<"broker_down">>),
    F("errors_auth", "omkafka_errors", Counter, "type", <<"auth">>),
    F("errors_ssl", "omkafka_errors", Counter, "type", <<"ssl">>),
    F("errors_other", "omkafka_errors", Counter, "type", <<"other">>),
    F("rtt_avg_usec", "omkafka_rtt_avg_usec_avg", Gauge, "", <<>>),
    F("throttle_avg_msec", "omkafka_throttle_avg_msec_avg", Gauge, "", <<>>),
    F("int_latency_avg_usec", "omkafka_int_latency_avg_usec_avg", Gauge, "", <<>>) >>

\* statDecoders: the kinds that have a decoder, with their field tables
statDecoders ==
    [k \in Types \ {TypeUnknown, TypeDynStat} |->
        CASE k = TypeAction -> ActionFields
          [] k = TypeInput -> InputFields
          [] k = TypeInputIMDUP -> InputIMUDPFields
          [] k = TypeQueue -> QueueFields
          [] k = TypeResource -> ResourceFields
          [] k = TypeDynafileCache -> DfcFields
          [] k = TypeForward -> ForwardFields
          [] k = TypeKubernetes -> KubernetesFields
          [] k = TypeOmkafka -> OmkafkaFields]

HasDecoder(k) == k \in DOMAIN statDecoders \/ k = TypeDynStat

\* string fields of the struct the kind is decoded into, besides name
StringKeys(k) ==
    {<<"name">>}
        \cup (IF k \in {TypeDynStat, TypeDynafileCache} THEN {<<"origin">>} ELSE {})
        \cup (IF k = TypeKubernetes THEN {<<"url">>} ELSE {})

IntKeys(k) ==
    IF k = TypeDynStat THEN {} ELSE {statDecoders[k][i].key : i \in DOMAIN statDecoders[k]}

\* last member named key whose value is not null (null leaves a field as is)
RECURSIVE FieldLookup(_, _, _)
FieldLookup(m, key, i) ==
    IF i = 0 THEN NoVal
    ELSE IF m[i].k = key /\ m[i].v.t # "null" THEN m[i].v
    ELSE FieldLookup(m, key, i - 1)

Field(obj, key) == FieldLookup(obj.m, key, Len(obj.m))

\* a JSON value that fits map[string]int64
IsIntMap(v) ==
    /\ v.t = "obj"
    /\ \A i \in DOMAIN v.m : v.m[i].v.t \in {"num", "null"}

\* json.Unmarshal(b, &pstat) into the struct of kind k: fails on a syntax
\* error and on a member whose value does not fit the field's type; r is the
\* parsed text
StructFrom(k, r) ==
    LET m == r.val.m
    IN  IF ~r.ok THEN [ok |-> FALSE, obj |-> ObjVal(<<>>)]
        ELSE IF r.val.t = "null" THEN [ok |-> TRUE, obj |-> ObjVal(<<>>)]
        ELSE IF r.val.t # "obj" THEN [ok |-> FALSE, obj |-> ObjVal(<<>>)]
        ELSE IF \E i \in DOMAIN m :
                   \/ m[i].k \in StringKeys(k) /\ m[i].v.t \notin {"str", "null"}
                   \/ m[i].k \in IntKeys(k) /\ m[i].v.t \notin {"num", "null"}
                   \/ k = TypeDynStat /\ m[i].k = <<"values">>
                        /\ m[i].v.t # "null" /\ ~IsIntMap(m[i].v)
             THEN [ok |-> FALSE, obj |-> ObjVal(<<>>)]
        ELSE [ok |-> TRUE, obj |-> r.val]

UnmarshalStruct(k, b) == StructFrom(k, ParseJSON(b))

StrField(obj, key) == IF Field(obj, key).t = "str" THEN Field(obj, key).s ELSE <<>>
IntField(obj, key) == IF Field(obj, key).t = "num" THEN Field(obj, key).n ELSE 0

\* apiNameRegexp mmkubernetes\((\S+)\): the first occurrence of
\* "mmkubernetes(" followed by one or more non-blank atoms and ")"; the
\* match is greedy, so the group runs to the last ")" of the blank-free run
RECURSIVE RunEnd(_, _)
RunEnd(s, i) == IF i <= Len(s) /\ s[i] # SP THEN RunEnd(s, i + 1) ELSE i - 1

RECURSIVE LastClose(_, _, _)
LastClose(s, lo, i) ==
    IF i < lo THEN 0 ELSE IF s[i] = ")" THEN i ELSE LastClose(s, lo, i - 1)

RECURSIVE KubeUrlFrom(_, _)
KubeUrlFrom(s, i) ==
    IF i + 1 > Len(s) THEN <<>>
    ELSE IF s[i] = "mmkubernetes" /\ s[i + 1] = "("
         THEN LET e == RunEnd(s, i + 2)
                  c == LastClose(s, i + 3, e)
              IN  IF c # 0 THEN SubSeq(s, i + 2, c - 1) ELSE KubeUrlFrom(s, i + 1)
    ELSE KubeUrlFrom(s, i + 1)

\* the label value a kind derives from the decoded struct: the name, the name
\* without its "dynafile cache " prefix, or the Url field, which the regexp
\* match overwrites when the name matches
LabelOf(k, obj) ==
    LET name == StrField(obj, <<"name">>) IN
    IF k = TypeDynafileCache THEN TrimPrefix(name, <<"dynafile", SP, "cache", SP>>)
    ELSE IF k = TypeKubernetes
         THEN IF KubeUrlFrom(name, 1) # <<>> THEN KubeUrlFrom(name, 1)
              ELSE StrField(obj, <<"url">>)
    ELSE name

\* ToPoints of the fixed-field kinds
ToPoints_PresentOnly(k, obj) ==
    LET fs == SelectSeq(statDecoders[k], LAMBDA f : Field(obj, f.key).t = "num")
        lbl == LabelOf(k, obj)
    IN  [i \in DOMAIN fs |->
            Point(fs[i].name, fs[i].type, IntField(obj, fs[i].key), fs[i].label,
                  IF fs[i].lv = UseName THEN lbl ELSE fs[i].lv)]

ToPoints(k, obj) ==
    LET fs == statDecoders[k]
        lbl == LabelOf(k, obj)
    IN  [i \in DOMAIN fs |->
            Point(fs[i].name, fs[i].type, IntField(obj, fs[i].key), fs[i].label,
                  IF fs[i].lv = UseName THEN lbl ELSE fs[i].lv)]

\* DynStat.Values: one entry per distinct counter name, the last one winning
DynValues(obj) ==
    LET v == Field(obj, <<"values">>)
        names == IF v.t = "obj" THEN {v.m[i].k : i \in DOMAIN v.m} ELSE {}
    IN  [n \in names |-> IntField(v, n)]

\* all orders in which a set can be enumerated
RECURSIVE Orders(_)
Orders(S) ==
    IF S = {} THEN {<<>>}
    ELSE UNION {{<<x>> \o t : t \in Orders(S \ {x})} : x \in S}

\* DynStat.ToPoints ranges over a Go map, whose iteration order is not fixed
DynStatToPoints_LabelIsName(obj) ==
    LET vals == DynValues(obj)
        nm == StrField(obj, <<"name">>)
    IN  {[i \in DOMAIN o |->
            Point(<<"dynstat_">> \o nm, Counter, vals[o[i]], "counter", nm)]
         : o \in Orders(DOMAIN vals)}

DynStatToPoints(obj) ==
    LET vals == DynValues(obj)
        nm == StrField(obj, <<"name">>)
    IN  {[i \in DOMAIN o |->
            Point(<<"dynstat_">> \o nm, Counter, vals[o[i]], "counter", o[i])]
         : o \in Orders(DOMAIN vals)}

\* the decoder of kind k applied to b: the results it can return; u is the
\* outcome of json.Unmarshal
PointsOf_IgnoreErr(k, u) ==
    IF k = TypeDynStat THEN {[ok |-> TRUE, points |-> pts] : pts \in DynStatToPoints(u.obj)}
    ELSE {[ok |-> TRUE, points |-> ToPoints(k, u.obj)]}

PointsOf(k, u) ==
    IF ~u.ok THEN {[ok |-> FALSE, points |-> <<>>]}
    ELSE IF k = TypeDynStat THEN {[ok |-> TRUE, points |-> pts] : pts \in DynStatToPoints(u.obj)}
    ELSE {[ok |-> TRUE, points |-> ToPoints(k, u.obj)]}

Decode(k, b) == PointsOf(k, UnmarshalStruct(k, b))

\* ------------------------------------------------------------ point store
\* sort.Strings on keys: byte order of the text.  AtomOrder lists the atoms
\* that occur in keys in ascending byte order.
AtomOrder == <<
    " ", "(", ")", ".", "a", "acked", "action_failed", "action_processed",
    "action_resumed", "action_suspended", "action_suspended_duration",
    "auth", "b", "broker_down", "c", "cache", "counter", "dynafile",
    "dynafile_cache_closetimeouts", "dynafile_cache_evicted",
    "dynafile_cache_level0", "dynafile_cache_maxused",
    "dynafile_cache_missed", "dynafile_cache_requests", "dynstat_",
    "dynstats", "enqueued", "evicted", "failures", "forward_bytes_total",
    "g", "global", "input_called_recvmmsg", "input_called_recvmsg",
    "input_received", "input_submitted", "k1", "k2",
    "kubernetes_namespace_metadata_busy_total",
    "kubernetes_namespace_metadata_error_total",
    "kubernetes_namespace_metadata_notfound_total",
    "kubernetes_namespace_metadata_success_total",
    "kubernetes_pod_metadata_busy_total",
    "kubernetes_pod_metadata_error_total",
    "kubernetes_pod_metadata_notfound_total",
    "kubernetes_pod_metadata_success_total", "kubernetes_record_seen_total",
    "miss", "mmkubernetes", "msg_too_large", "my", "name", "omfwd",
    "omkafka", "omkafka_errors", "omkafka_failures",
    "omkafka_int_latency_avg_usec_avg", "omkafka_maxoutqsize",
    "omkafka_messages", "omkafka_rtt_avg_usec_avg",
    "omkafka_throttle_avg_msec_avg", "omkafka_topicdynacache", "other",
    "processed", "q", "queue_discarded_full", "queue_discarded_not_full",
    "queue_enqueued", "queue_full", "queue_max_size", "queue_size",
    "resource_inblock", "resource_majflt", "resource_maxrss",
    "resource_minflt", "resource_nivcsw", "resource_nvcsw",
    "resource_oublock", "resource_stime", "resource_utime", "skipped", "ssl",
    "stats_line_errors", "submitted", "timed_out", "transport",
    "unknown_partition", "unknown_topic", "utime", "values", "w", "x" >>

Rank(a) == IF \E i \in DOMAIN AtomOrder : AtomOrder[i] = a
           THEN CHOOSE i \in DOMAIN AtomOrder : AtomOrder[i] = a
           ELSE 0

RECURSIVE SeqLess(_, _, _)
SeqLess(a, b, i) ==
    IF i > Len(a) THEN i <= Len(b)
    ELSE IF i > Len(b) THEN FALSE
    ELSE IF a[i] = b[i] THEN SeqLess(a, b, i + 1)
    ELSE Rank(a[i]) < Rank(b[i])

KeyLess(a, b) == SeqLess(a, b, 1)

\* the i-th element of the sorted list is the key with i - 1 keys below it
SortStrings(S) ==
    [i \in 1..Cardinality(S) |->
        CHOOSE k \in S : Cardinality({y \in S : KeyLess(y, k)}) = i - 1]

\* A *Point held in the map.  Points made by a decoder or a client are never
\* written after they are made, so such a pointer is represented by the
\* point itself; the run loop's errorPoint is written after it is stored,
\* so a pointer to it is a reference to the variable errorPoint.
NoPoint == Point(<<>>, Counter, 0, "", <<>>)
ErrPtr == [obj |-> "errorPoint", p |-> NoPoint]
PtrTo(pt) == [obj |-> "point", p |-> pt]

\* the key of a point as the data model defines it
SpecKey(p) == IF p.LabelValue = <<>> THEN p.Name ELSE p.Name \o <<".">> \o p.LabelValue

\* ps.pointMap[key] = ptr
MapSet_Sum(m, key, ptr) ==
    [k \in DOMAIN m \cup {key} |->
        IF k # key THEN m[k]
        ELSE IF key \in DOMAIN m
             THEN [ptr EXCEPT !.p.Value = @ + m[key].p.Value]
             ELSE ptr]

MapSet_Alone(m, key, ptr) == [k \in {key} |-> ptr]

MapSet(m, key, ptr) ==
    [k \in DOMAIN m \cup {key} |-> IF k = key THEN ptr ELSE m[k]]

\* delete(ps.pointMap, name)
MapDelete_Nothing(m, name) == m

MapDelete(m, name) == [k \in DOMAIN m \ {name} |-> m[k]]

\* Store.Keys: the keys of the map in sorted order
StoreKeys_Unsorted(m) ==
    LET srt == SortStrings(DOMAIN m)
    IN  [i \in DOMAIN srt |-> srt[Len(srt) + 1 - i]]

StoreKeys(m) == SortStrings(DOMAIN m)

\* sync.RWMutex
NoThread == <<"none", 0>>
Ingest == <<"ingest", 0>>
Scrapers == {<<"scraper", i>> : i \in 1..NumScrapers}
Clients == {<<"client", i>> : i \in 1..NumClients}

Unlocked == [w |-> NoThread, r |-> {}]
CanLock(l) == l.w = NoThread /\ l.r = {}
CanRLock(l) == l.w = NoThread
Lock(l, t) == [l EXCEPT !.w = t]

Unlock_Held(l) == l

Unlock(l) == [l EXCEPT !.w = NoThread]
RLock(l, t) == [l EXCEPT !.r = @ \cup {t}]

RUnlock_Held(l, t) == l

RUnlock(l, t) == [l EXCEPT !.r = @ \ {t}]

\* ------------------------------------------------------------ input lines
Str(x) == <<Q>> \o x \o <<Q>>

\* Payloads for the classifier, written from a description: the form (a
\* JSON object, an object with a bare word as a value, or plain words), the
\* name member (absent, a number, or a string), the other member keys, the
\* blank after ":" and ",", and the order of the other members.
CNames == {<<"omkafka">>, <<"omfwd">>, <<"mmkubernetes">>,
           <<"mmkubernetes", "(", "x", ")">>, <<"x">>, <<"x", "omfwd">>,
           <<"omkafka", "x">>, <<"un", "processed">>,
           <<"dynafile", SP, "cache", SP, "x">>}
CNameOpts == {[kind |-> "absent", s |-> <<>>], [kind |-> "number", s |-> <<>>]}
               \cup {[kind |-> "string", s |-> n] : n \in CNames}
SigWords == <<"processed", "submitted", "called.recvmmsg", "enqueued", "utime",
              "dynstats", "omfwd", "mmkubernetes">>
SigSets == {S \in SUBSET {SigWords[i] : i \in DOMAIN SigWords} : Cardinality(S) <= MaxSignals}

Descs == [form : {"object", "broken", "words"}, name : CNameOpts, sig : SigSets,
          spaced : BOOLEAN, rev : BOOLEAN]
NoDesc == [form |-> "none", name |-> [kind |-> "absent", s |-> <<>>], sig |-> {},
           spaced |-> FALSE, rev |-> FALSE]

Reverse(q) == [i \in DOMAIN q |-> q[Len(q) + 1 - i]]

RECURSIVE Join(_, _)
Join(parts, sep) ==
    IF parts = <<>> THEN <<>>
    ELSE IF Len(parts) = 1 THEN parts[1]
    ELSE parts[1] \o sep \o Join(Tail(parts), sep)

Render(d) ==
    LET sigs0 == SelectSeq(SigWords, LAMBDA w : w \in d.sig)
        sigs == IF d.rev THEN Reverse(sigs0) ELSE sigs0
        blank == IF d.spaced THEN <<SP>> ELSE <<>>
        mem(k, v) == Str(k) \o <<COLON>> \o blank \o v
        nameM == IF d.name.kind = "absent" THEN <<>>
                 ELSE IF d.name.kind = "number" THEN <<mem(<<"name">>, <<"1">>)>>
                 ELSE <<mem(<<"name">>, Str(d.name.s))>>
        sigM == [i \in DOMAIN sigs |-> mem(<<sigs[i]>>, <<"1">>)]
        badM == IF d.form = "broken" THEN <<mem(<<"bad">>, <<"notjson">>)>> ELSE <<>>
    IN  IF d.form = "words"
        THEN Join((IF d.name.kind = "string" THEN <<d.name.s>> ELSE <<>>)
                    \o [i \in DOMAIN sigs |-> <<sigs[i]>>], <<SP>>)
        ELSE <<LB>> \o Join(nameM \o sigM \o badM, <<COMMA>> \o blank) \o <<RB>>
Words(fields) ==
    IF Len(fields) = 0 THEN <<>>
    ELSE [i \in 1..(2 * Len(fields) - 1) |->
            IF i % 2 = 1 THEN fields[(i + 1) \div 2] ELSE SP]

\* {"name":"x","submitted":1}
PInput1 == <<LB>> \o Str(<<"name">>) \o <<COLON>> \o Str(<<"x">>) \o <<COMMA>>
           \o Str(<<"submitted">>) \o <<COLON, "1", RB>>
\* {"name": "x", "submitted": 2}
PInput2 == <<LB>> \o Str(<<"name">>) \o <<COLON, SP>> \o Str(<<"x">>) \o <<COMMA, SP>>
           \o Str(<<"submitted">>) \o <<COLON, SP, "2", RB>>
\* {"submitted":1}
PNoName == <<LB>> \o Str(<<"submitted">>) \o <<COLON, "1", RB>>
\* {"name":"w","called.recvmmsg":1,"msgs.received":2}
PUdp == <<LB>> \o Str(<<"name">>) \o <<COLON>> \o Str(<<"w">>) \o <<COMMA>>
        \o Str(<<"called.recvmmsg">>) \o <<COLON, "1", COMMA>>
        \o Str(<<"msgs.received">>) \o <<COLON, "2", RB>>
\* {"processed":notjson}
PBadAction == <<LB>> \o Str(<<"processed">>) \o <<COLON, "notjson", RB>>
\* {"foo":1}
PUnknown == <<LB>> \o Str(<<"foo">>) \o <<COLON, "1", RB>>
\* {"name":"x","submitted":1.5}
PFloat == <<LB>> \o Str(<<"name">>) \o <<COLON>> \o Str(<<"x">>) \o <<COMMA>>
          \o Str(<<"submitted">>) \o <<COLON, "1.5", RB>>

\* {"name":"x","utime":2,"maxrss":1}
PResource == <<LB>> \o Str(<<"name">>) \o <<COLON>> \o Str(<<"x">>) \o <<COMMA>>
             \o Str(<<"utime">>) \o <<COLON, "2", COMMA>>
             \o Str(<<"maxrss">>) \o <<COLON, "1", RB>>
\* {"name":"g","origin":"dynstats","values":{"a":1,"b":2}}
PDynStat == <<LB>> \o Str(<<"name">>) \o <<COLON>> \o Str(<<"g">>) \o <<COMMA>>
            \o Str(<<"origin">>) \o <<COLON>> \o Str(<<"dynstats">>) \o <<COMMA>>
            \o Str(<<"values">>) \o <<COLON, LB>> \o Str(<<"a">>) \o <<COLON, "1", COMMA>>
            \o Str(<<"b">>) \o <<COLON, "2", RB, RB>>

Payloads == {PInput1, PInput2, PNoName, PUdp, PBadAction, PUnknown, PFloat}

\* the lines the scanner can deliver
Lines ==
    {Words(<<"a", "b", "c">>) \o <<SP>> \o pl : pl \in Payloads}
      \cup {Words(<<"a", "b">>) \o <<SP>> \o pl : pl \in {PInput1, PInput2}}
      \cup {<<>>, Words(<<"a", "b", "c">>), Words(<<"a", "b", "c">>) \o <<SP>>}

\* the lines delivered while scrapes run
ScrapeLines ==
    {Words(<<"a", "b", "c">>) \o <<SP>> \o pl : pl \in {PInput1, PNoName, PUdp}}
      \cup {Words(<<"a", "b", "c">>)}

\* Records whose payload no decoder accepts.  Mem(k, v) is the member "k":v
\* and Obj(ms) the object of the members ms.
Mem(k, v) == Str(k) \o <<COLON>> \o v
Obj(ms) == <<LB>> \o Join(ms, <<COMMA>>) \o <<RB>>
Record(pl) == Words(<<"a", "b", "c">>) \o <<SP>> \o pl

\* per kind, a record that is classified as the kind and is no JSON text:
\* {"name":"x","submitted":notjson} and the like
BadLine ==
    [k \in Types \ {TypeUnknown} |->
        Record(
          CASE k = TypeAction -> Obj(<<Mem(<<"processed">>, <<"notjson">>)>>)
            [] k = TypeInput ->
                 Obj(<<Mem(<<"name">>, Str(<<"x">>)), Mem(<<"submitted">>, <<"notjson">>)>>)
            [] k = TypeInputIMDUP ->
                 Obj(<<Mem(<<"name">>, Str(<<"x">>)),
                       Mem(<<"called.recvmmsg">>, <<"notjson">>)>>)
            [] k = TypeQueue ->
                 Obj(<<Mem(<<"name">>, Str(<<"x">>)), Mem(<<"enqueued">>, <<"notjson">>)>>)
            [] k = TypeResource ->
                 Obj(<<Mem(<<"name">>, Str(<<"x">>)), Mem(<<"utime">>, <<"notjson">>)>>)
            [] k = TypeDynStat ->
                 Obj(<<Mem(<<"name">>, Str(<<"global">>)),
                       Mem(<<"origin">>, Str(<<"dynstats">>)),
                       Mem(<<"values">>, <<"notjson">>)>>)
            [] k = TypeDynafileCache ->
                 Obj(<<Mem(<<"name">>, Str(<<"dynafile", SP, "cache", SP, "x">>)),
                       Mem(<<"requests">>, <<"notjson">>)>>)
            [] k = TypeForward ->
                 Obj(<<Mem(<<"name">>, Str(<<"omfwd">>)), Mem(<<"bytes.sent">>, <<"notjson">>)>>)
            [] k = TypeKubernetes ->
                 Obj(<<Mem(<<"name">>, Str(<<"mmkubernetes">>)),
                       Mem(<<"recordseen">>, <<"notjson">>)>>)
            [] k = TypeOmkafka ->
                 Obj(<<Str(<<"name">>) \o <<COLON, SP>> \o Str(<<"omkafka">>),
                       Mem(<<"submitted">>, <<"notjson">>)>>))]

\* records that are JSON text but do not fit the struct of their kind: a
\* fraction for an int64 field, a number for the name, a string in the
\* values map, an array for the whole payload
MisfitLines ==
    {Record(PFloat),
     Record(Obj(<<Mem(<<"name">>, <<"1">>), Mem(<<"utime">>, <<"1">>)>>)),
     Record(Obj(<<Mem(<<"name">>, Str(<<"g">>)), Mem(<<"origin">>, Str(<<"dynstats">>)),
                  Mem(<<"values">>, Obj(<<Mem(<<"a">>, Str(<<"x">>))>>))>>))}

BadLines == {BadLine[k] : k \in DOMAIN BadLine} \cup MisfitLines \cup {Record(PInput1)}

\* the records delivered twice in a row
TwiceLines ==
    {Words(<<"a", "b", "c">>) \o <<SP>> \o pl : pl \in {PInput1, PUdp, PResource, PDynStat}}
      \cup {Words(<<"a", "b", "c">>)}

\* {"name":"main Q","size":1,"enqueued":2,"full":0,"discarded.full":1,
\*  "discarded.nf":2,"maxqsize":2}
MainQ == <<"main", SP, "Q">>
PQueue1 == Obj(<<Mem(<<"name">>, Str(MainQ)), Mem(<<"size">>, <<"1">>),
                 Mem(<<"enqueued">>, <<"2">>), Mem(<<"full">>, <<"0">>),
                 Mem(<<"discarded.full">>, <<"1">>), Mem(<<"discarded.nf">>, <<"2">>),
                 Mem(<<"maxqsize">>, <<"2">>)>>)
\* {"name":"main Q","size":0,"enqueued":2,"full":1,"discarded.full":2,
\*  "discarded.nf":0,"maxqsize":1}
PQueue2 == Obj(<<Mem(<<"name">>, Str(MainQ)), Mem(<<"size">>, <<"0">>),
                 Mem(<<"enqueued">>, <<"2">>), Mem(<<"full">>, <<"1">>),
                 Mem(<<"discarded.full">>, <<"2">>), Mem(<<"discarded.nf">>, <<"0">>),
                 Mem(<<"maxqsize">>, <<"1">>)>>)
\* {"name":"q","size":2,"enqueued":1}
PQueue3 == Obj(<<Mem(<<"name">>, Str(<<"q">>)), Mem(<<"size">>, <<"2">>),
                 Mem(<<"enqueued">>, <<"1">>)>>)

\* {"name":"a.b","origin":"dynstats","values":{"c":1}}
PDynAB == Obj(<<Mem(<<"name">>, Str(<<"a", ".", "b">>)), Mem(<<"origin">>, Str(<<"dynstats">>)),
                Mem(<<"values">>, Obj(<<Mem(<<"c">>, <<"1">>)>>))>>)
\* {"name":"a","origin":"dynstats","values":{"b.c":2}}
PDynA == Obj(<<Mem(<<"name">>, Str(<<"a">>)), Mem(<<"origin">>, Str(<<"dynstats">>)),
               Mem(<<"values">>, Obj(<<Mem(<<"b", ".", "c">>, <<"2">>)>>))>>)

\* {"name":"w","called.recvmmsg":2,"msgs.received":1}
PUdp2 == Obj(<<Mem(<<"name">>, Str(<<"w">>)), Mem(<<"called.recvmmsg">>, <<"2">>),
               Mem(<<"msgs.received">>, <<"1">>)>>)

\* the records delivered while a scrape runs: two of one source with
\* different values
MixLines == {Record(PUdp), Record(PUdp2), Words(<<"a", "b", "c">>)}

\* per fixed-schema kind, a record that carries none of the kind's fields
\* and is classified as the kind by a substring of a value: {"msg":"utime"}
\* and the like
IncidentalWord ==
    [k \in DOMAIN statDecoders \ {TypeOmkafka} |->
        CASE k = TypeAction -> <<"processed">>
          [] k = TypeInput -> <<"submitted">>
          [] k = TypeInputIMDUP -> <<"called.recvmmsg">>
          [] k = TypeQueue -> <<"enqueued">>
          [] k = TypeResource -> <<"utime">>
          [] k = TypeDynafileCache -> <<"dynafile", SP, "cache">>
          [] k = TypeForward -> <<"omfwd">>
          [] k = TypeKubernetes -> <<"mmkubernetes">>]

IncidentalLine ==
    [k \in DOMAIN IncidentalWord |-> Record(Obj(<<Mem(<<"msg">>, Str(IncidentalWord[k]))>>))]

\* the records delivered to the decoders
DecodeLines ==
    {Record(PQueue1), Record(PQueue2), Record(PQueue3), Record(PDynAB), Record(PDynA),
     Words(<<"a", "b", "c">>)}
      \cup {IncidentalLine[k] : k \in DOMAIN IncidentalLine}

\* ------------------------------------------------------------ ingest loop
\* handleStatLine up to its Set loop: the outcomes it can reach.
\* dec, ok := statDecoders[pstatType]; points, err := dec(buf)
DecodeStat(buf, pstatType) ==
    IF ~HasDecoder(pstatType)
    THEN {[err |-> "unknown", buf |-> buf, kind |-> pstatType, points |-> <<>>]}
    ELSE {[err |-> IF d.ok THEN "none" ELSE "decode", buf |-> buf,
           kind |-> pstatType, points |-> d.points] : d \in Decode(pstatType, buf)}

\* s is what bytes.SplitN returned
HandleFields(s) ==
    IF Len(s) # 4
    THEN {[err |-> "split", buf |-> <<>>, kind |-> TypeUnknown, points |-> <<>>]}
    ELSE DecodeStat(s[4], StatType(s[4]))

HandleStatLine(rawbuf) == HandleFields(SplitN(rawbuf, 4))

NoResult == [err |-> "none", buf |-> <<>>, kind |-> TypeUnknown, points |-> <<>>]

\* prometheus.MustNewConstMetric(p.PromDescription(), ..., labelValues...)
\* panics when the number of label values differs from the number of
\* variable labels of the description
VariableLabels(p) == IF p.LabelName # "" THEN <<p.LabelName>> ELSE <<>>
LabelValues(p) == IF p.LabelValue # <<>> THEN <<p.LabelValue>> ELSE <<>>
MustNewConstMetricPanics(p) == Len(LabelValues(p)) # Len(VariableLabels(p))

VARIABLES
    pointMap,    \* Store.pointMap: key -> pointer
    lock,        \* Store.lock
    errorPoint,  \* the Point the run loop made and stored
    ipc,         \* where the run loop is
    nread,       \* records the scanner has delivered
    scanBytes,   \* scanner.Bytes(), the record the scanner delivered
    hres,        \* outcome of handleStatLine for scanBytes, before its Set loop
    pending,     \* pointers still to be Set by the loop in progress
    retval,      \* what run returned
    streamEnd,   \* history: how the input ended: "open", "eof" or "error"
    nhandled,    \* history: records handleStatLine was called for
    nfailed,     \* history: records whose handling returned an error
    produced,    \* history: keys of the points of the records handled
    silent,      \* run's parameter: no diagnostic for a record that fails
    logged,      \* diagnostics "error handling stats line" printed by run
    ctxDone,     \* the root context of main: whether cancel() was called, and when
    spc,         \* per scrape: where it is
    sop,         \* per scrape: "Collect" or "Describe"
    skeys,       \* per scrape: the keys snapshot
    si,          \* per scrape: index into skeys
    sptr,        \* per scrape: the pointer Get returned
    sout,        \* per scrape: what was sent on the channel
    cDesc,       \* classifier run: what the payload was written from
    cBuf,        \* classifier run: the payload
    cKind,       \* classifier run: the kind returned
    cpc,         \* per client: where it is
    ccall,       \* per client: the store call in progress
    cret,        \* per client: what the last call returned
    nops,        \* store calls started by clients
    lastSet,     \* history: key -> point of the latest Set not followed by Delete
    proc,        \* the process: "running", or how it ended
    runLog,      \* what main logged when Run returned
    nscr,        \* scrapes that have returned to the registry
    retKeys      \* history: keys of the samples of the Collects that returned

ingestVars == <<errorPoint, ipc, nread, scanBytes, hres, pending, retval, streamEnd, nhandled,
                nfailed, produced, silent, logged, ctxDone>>
scrapeVars == <<spc, sop, skeys, si, sptr, sout>>
classVars == <<cDesc, cBuf, cKind>>
clientVars == <<cpc, ccall, cret, nops, lastSet>>
mainVars == <<proc, runLog, nscr, retKeys>>
vars == <<pointMap, lock, ingestVars, scrapeVars, classVars, clientVars, mainVars>>

Deref(ptr) == IF ptr.obj = "errorPoint" THEN errorPoint ELSE ptr.p

\* context.WithCancel(context.Background()) before cancel() is called
NotCancelled == [fired |-> FALSE, pc |-> "none", n |-> 0]

NoCall == [op |-> "none", key |-> <<>>, ptr |-> PtrTo(NoPoint)]
NoRet == [op |-> "none", key |-> <<>>, found |-> FALSE, ptr |-> PtrTo(NoPoint), keys |-> <<>>]

StoreInit ==
    /\ pointMap = << >>
    /\ lock = Unlocked

IngestIdle ==
    /\ errorPoint = NoPoint
    /\ ipc = "off"
    /\ nread = 0
    /\ scanBytes = <<>>
    /\ hres = NoResult
    /\ pending = <<>>
    /\ retval = "none"
    /\ streamEnd = "open"
    /\ nhandled = 0
    /\ nfailed = 0
    /\ produced = {}
    /\ silent = FALSE
    /\ logged = 0
    /\ ctxDone = NotCancelled

ScrapeIdle(pc0) ==
    /\ spc = [s \in Scrapers |-> pc0]
    /\ sop = [s \in Scrapers |-> "none"]
    /\ skeys = [s \in Scrapers |-> <<>>]
    /\ si = [s \in Scrapers |-> 0]
    /\ sptr = [s \in Scrapers |-> PtrTo(NoPoint)]
    /\ sout = [s \in Scrapers |-> <<>>]

ClassIdle ==
    /\ cDesc = NoDesc
    /\ cBuf = <<>>
    /\ cKind = "none"

ClientIdle(pc0) ==
    /\ cpc = [c \in Clients |-> pc0]
    /\ ccall = [c \in Clients |-> NoCall]
    /\ cret = [c \in Clients |-> NoRet]
    /\ nops = 0
    /\ lastSet = << >>

\* main before it starts the goroutine of Run and the server
MainIdle ==
    /\ proc = "running"
    /\ runLog = "none"
    /\ nscr = 0
    /\ retKeys = {}

\* ---- run: the exporter after New(), the run loop about to start
Init ==
    /\ StoreInit
    /\ IngestIdle
    /\ ScrapeIdle("idle")
    /\ ClassIdle
    /\ ClientIdle("off")
    /\ MainIdle

\* run: errorPoint := &Point{Name: "stats_line_errors", Type: Counter};
\* the call re.Set(errorPoint) follows
RunStart_NoSet ==
    /\ ipc = "off"
    /\ errorPoint' = Point(<<"stats_line_errors">>, Counter, 0, "", <<>>)
    /\ pending' = <<>>
    /\ ipc' = "scan"
    /\ silent' \in BOOLEAN
    /\ UNCHANGED <<pointMap, lock, nread, scanBytes, hres, retval, streamEnd, nhandled, nfailed,
                   produced, logged, ctxDone,
                   scrapeVars, classVars, mainVars, clientVars>>

RunStart ==
    /\ ipc = "off"
    /\ errorPoint' = Point(<<"stats_line_errors">>, Counter, 0, "", <<>>)
    /\ pending' = <<ErrPtr>>
    /\ ipc' = "set"
    /\ silent' \in BOOLEAN
    /\ UNCHANGED <<pointMap, lock, nread, scanBytes, hres, retval, streamEnd, nhandled, nfailed, produced,
                   logged, ctxDone,
                   scrapeVars, classVars, mainVars, clientVars>>

\* Store.Set, first half: ps.lock.Lock()
IngestSetLock ==
    /\ ipc = "set"
    /\ CanLock(lock)
    /\ lock' = Lock(lock, Ingest)
    /\ ipc' = "set_locked"
    /\ UNCHANGED <<pointMap, errorPoint, nread, scanBytes, hres, pending, retval, streamEnd, nhandled, nfailed,
                   produced, silent, logged, ctxDone,
                   scrapeVars, classVars, mainVars, clientVars>>

\* Store.Set, second half: ps.pointMap[p.Key()] = p; ps.lock.Unlock(); then
\* the next point of the loop, or back to scanner.Scan()
IngestSetStore ==
    /\ ipc = "set_locked"
    /\ pointMap' = MapSet(pointMap, Key(Deref(Head(pending))), Head(pending))
    /\ lock' = Unlock(lock)
    /\ pending' = Tail(pending)
    /\ ipc' = IF Tail(pending) = <<>> THEN "scan" ELSE "set"
    /\ UNCHANGED <<errorPoint, nread, scanBytes, hres, retval, streamEnd, nhandled, nfailed, produced,
                   silent, logged, ctxDone,
                   scrapeVars, classVars, mainVars, clientVars>>

\* handleStatLine's loop for _, p := range points { re.Set(p) }: the pointers
\* it stores, in order
SetLoop_FirstOnly(points) ==
    IF points = <<>> THEN <<>> ELSE <<PtrTo(points[1])>>

SetLoop(points) == [i \in DOMAIN points |-> PtrTo(points[i])]

\* scanner.Scan() delivers a record, one of L (at most max records arrive),
\* and handleStatLine splits, classifies and decodes it; on success its Set
\* loop follows
ScanRecord(L, max) ==
    /\ ipc = "scan"
    /\ nread < max
    /\ \E l \in L :
        /\ scanBytes' = l
        /\ \E h \in HandleStatLine(l) :
            /\ hres' = h
            /\ IF h.err # "none"
               THEN /\ ipc' = "onerr"
                    /\ pending' = <<>>
                    /\ nfailed' = nfailed + 1
                    /\ produced' = produced
               ELSE /\ ipc' = IF h.points = <<>> THEN "scan" ELSE "set"
                    /\ pending' = SetLoop(h.points)
                    /\ nfailed' = nfailed
                    /\ produced' = produced \cup {SpecKey(h.points[i]) : i \in DOMAIN h.points}
    /\ nread' = nread + 1
    /\ nhandled' = nhandled + 1
    /\ UNCHANGED <<pointMap, lock, errorPoint, retval, streamEnd,
                   silent, logged, ctxDone,
                   scrapeVars, classVars, mainVars, clientVars>>

\* run after the loop: if err := re.scanner.Err(); err != nil { return err };
\* return nil
RunReturn_Nil(e) == "nil"

RunReturn(e) == IF e = "error" THEN "err" ELSE "nil"

\* scanner.Scan() returns false; scanner.Err() is nil (end of input) or the
\* scanner's error, and run returns it
\* run ends with return err or return nil: it hands the outcome to its caller
\* and leaves the process as it is; p is the state of the process
ProcAfterRun_Exit(p) == "exit 0: run"

ProcAfterRun(p) == p

ScanEnd ==
    /\ ipc = "scan"
    /\ \E e \in {"eof", "error"} :
        /\ streamEnd' = e
        /\ retval' = RunReturn(e)
    /\ ipc' = "done"
    /\ proc' = ProcAfterRun(proc)
    /\ UNCHANGED <<pointMap, lock, errorPoint, nread, scanBytes, hres, pending, nhandled, nfailed,
                   produced, silent, logged, ctxDone,
                   scrapeVars, classVars, runLog, nscr, retKeys, clientVars>>

\* run, err != nil: errorPoint.Value += 1
Increment_Reset(p) == [p EXCEPT !.Value = 1]

Increment(p) == [p EXCEPT !.Value = @ + 1]

\* run, err != nil: the increment comes first and outside the test of silent
OnErrorPoint_UnlessSilent(p, sl) == IF sl THEN p ELSE Increment(p)

OnErrorPoint(p, sl) == Increment(p)

\* if !silent { log.Printf("error handling stats line: ...") }; n counts the
\* diagnostics printed
Diagnostics(n, sl) == IF sl THEN n ELSE n + 1

OnError ==
    /\ ipc = "onerr"
    /\ errorPoint' = OnErrorPoint(errorPoint, silent)
    /\ logged' = Diagnostics(logged, silent)
    /\ ipc' = "scan"
    /\ UNCHANGED <<pointMap, lock, nread, scanBytes, hres, pending, retval, streamEnd, nhandled, nfailed, produced,
                   silent, ctxDone,
                   scrapeVars, classVars, mainVars, clientVars>>

IngestStep(L, max) ==
    RunStart \/ IngestSetLock \/ IngestSetStore \/ ScanRecord(L, max) \/ ScanEnd
      \/ OnError

\* ---- the classifier on every payload of Descs
InitClassify ==
    /\ StoreInit
    /\ IngestIdle
    /\ ScrapeIdle("off")
    /\ ClientIdle("off")
    /\ cKind = "none"
    /\ \E d \in Descs : cDesc = d /\ cBuf = Render(d)
    /\ MainIdle

Classify ==
    /\ cKind = "none"
    /\ cDesc # NoDesc
    /\ cKind' = StatType(cBuf)
    /\ UNCHANGED <<pointMap, lock, ingestVars, scrapeVars, cDesc, cBuf, clientVars, mainVars>>

NextClassify == Classify

SpecClassify == InitClassify /\ [][NextClassify]_vars

\* main: cancel() of the root context it passed to Run; run does not read
\* the context
Cancel ==
    /\ ~ctxDone.fired
    /\ ipc # "done"
    /\ ctxDone' = [fired |-> TRUE, pc |-> ipc, n |-> nread]
    /\ UNCHANGED <<pointMap, lock, errorPoint, ipc, nread, scanBytes, hres, pending, retval,
                   streamEnd, nhandled, nfailed, produced, silent, logged,
                   scrapeVars, classVars, mainVars, clientVars>>

\* the run loop alone, on every stream of at most MaxRecords lines, and the
\* cancellation main may issue
NextRun == IngestStep(Lines, MaxRecords) \/ Cancel

SpecRun == Init /\ [][NextRun]_vars

\* the run loop is a goroutine of its own and gets to run; the scanner
\* returns on every finite input
SpecRunFair == SpecRun /\ WF_vars(IngestStep(Lines, MaxRecords))

\* the run loop on an input that repeats its first record: the same bytes
\* are delivered up to MaxRepeats times
NextTwice ==
    \/ RunStart \/ IngestSetLock \/ IngestSetStore
    \/ ScanRecord(IF nread = 0 THEN TwiceLines ELSE {scanBytes}, MaxRepeats)
    \/ ScanEnd \/ OnError

SpecTwice == Init /\ [][NextTwice]_vars

\* the run loop on records no decoder accepts, and one valid record
NextBad == IngestStep(BadLines, MaxBadRecords)

SpecBad == Init /\ [][NextBad]_vars

\* the run loop on Queue and DynStat records and on records that carry none
\* of the fields of their kind
NextDecode == IngestStep(DecodeLines, MaxDecodeRecords)

SpecDecode == Init /\ [][NextDecode]_vars

\* ---------------------------------------------------------------- scrapes
\* what Collect sends for p: description, type, value and label values
Metric_NoLabels(k, p) ==
    [key |-> k, name |-> p.Name, type |-> p.Type, value |-> p.Value,
     labels |-> <<>>]

Metric(k, p) ==
    [key |-> k, name |-> p.Name, type |-> p.Type, value |-> p.Value,
     labels |-> LabelValues(p)]

\* what Describe sends for p: p.PromDescription()
Desc(k, p) ==
    [key |-> k, name |-> p.Name, type |-> "Desc", value |-> 0,
     labels |-> VariableLabels(p)]

ScrapesDesc == [key |-> <<>>, name |-> <<"scrapes">>, type |-> "Desc", value |-> 0,
                labels |-> <<>>]

\* A scrape calls Collect or Describe; Describe first sends the scrapes
\* description; both then call re.Keys(), whose first half is
\* ps.lock.RLock().  Scrape threads are interchangeable, so they are started
\* in the order of their numbers.
ScrapeStart(s) ==
    /\ spc[s] = "idle"
    /\ \A t \in Scrapers : t[2] < s[2] => spc[t] # "idle"
    /\ CanRLock(lock)
    /\ lock' = RLock(lock, s)
    /\ \E op \in {"Collect", "Describe"} :
        /\ sop' = [sop EXCEPT ![s] = op]
        /\ sout' = [sout EXCEPT ![s] = IF op = "Describe" THEN <<ScrapesDesc>> ELSE <<>>]
    /\ spc' = [spc EXCEPT ![s] = "keys_locked"]
    /\ UNCHANGED <<pointMap, ingestVars, skeys, si, sptr, classVars, mainVars, clientVars>>

\* Store.Keys, second half: copy the keys, ps.lock.RUnlock(), sort
KeysRead(s) ==
    /\ spc[s] = "keys_locked"
    /\ skeys' = [skeys EXCEPT ![s] = StoreKeys(pointMap)]
    /\ lock' = RUnlock(lock, s)
    /\ si' = [si EXCEPT ![s] = 1]
    /\ spc' = [spc EXCEPT ![s] = IF DOMAIN pointMap = {} THEN "done" ELSE "get"]
    /\ UNCHANGED <<pointMap, ingestVars, sop, sptr, sout, classVars, mainVars, clientVars>>

\* Store.Get, first half: ps.lock.RLock()
GetRLock(s) ==
    /\ spc[s] = "get"
    /\ CanRLock(lock)
    /\ lock' = RLock(lock, s)
    /\ spc' = [spc EXCEPT ![s] = "get_locked"]
    /\ UNCHANGED <<pointMap, ingestVars, sop, skeys, si, sptr, sout, classVars, mainVars, clientVars>>

\* The rest of the loop body for the point p read through the pointer:
\* build the metric (Collect) or the description (Describe) and send it.
SendFor(s, p) ==
    LET k == skeys[s][si[s]] IN
    IF sop[s] = "Collect" /\ MustNewConstMetricPanics(p)
    THEN /\ spc' = [spc EXCEPT ![s] = "panicked"]
         /\ UNCHANGED <<si, sout>>
    ELSE /\ sout' = [sout EXCEPT ![s] =
                       Append(@, IF sop[s] = "Collect" THEN Metric(k, p) ELSE Desc(k, p))]
         /\ si' = [si EXCEPT ![s] = @ + 1]
         /\ spc' = [spc EXCEPT ![s] = IF si[s] = Len(skeys[s]) THEN "done" ELSE "get"]

\* Store.Get, second half: look the key up, ps.lock.RUnlock(); a key that is
\* gone is skipped.  The fields of a point that nobody writes are read in
\* the same step; the fields of errorPoint are read in a later step (Emit),
\* without the lock, as in the code.
GetRead(s) ==
    /\ spc[s] = "get_locked"
    /\ lock' = RUnlock(lock, s)
    /\ LET k == skeys[s][si[s]] IN
       IF k \notin DOMAIN pointMap
       THEN /\ si' = [si EXCEPT ![s] = @ + 1]
            /\ spc' = [spc EXCEPT ![s] = IF si[s] = Len(skeys[s]) THEN "done" ELSE "get"]
            /\ UNCHANGED <<sptr, sout>>
       ELSE /\ sptr' = [sptr EXCEPT ![s] = pointMap[k]]
            /\ IF pointMap[k] = ErrPtr
               THEN /\ spc' = [spc EXCEPT ![s] = "emit"]
                    /\ UNCHANGED <<si, sout>>
               ELSE SendFor(s, pointMap[k].p)
    /\ UNCHANGED <<pointMap, ingestVars, sop, skeys, classVars, mainVars, clientVars>>

\* the rest of the loop body when the pointer is errorPoint
Emit(s) ==
    /\ spc[s] = "emit"
    /\ SendFor(s, Deref(sptr[s]))
    /\ UNCHANGED <<pointMap, lock, ingestVars, sop, skeys, sptr, classVars, mainVars, clientVars>>

ScrapeStep == \E s \in Scrapers :
    ScrapeStart(s) \/ KeysRead(s) \/ GetRLock(s) \/ GetRead(s) \/ Emit(s)

\* the run loop and the scrapes together
\* ------------------------------------------------------ clients of Store
\* the points clients Set: one key with a higher and a lower value, with
\* another type and label name, and two points of different name and label
\* that share a key
ClientPoints ==
    {Point(<<"a">>, Counter, 2, "", <<>>),
     Point(<<"a">>, Counter, 1, "", <<>>),
     Point(<<"a">>, Gauge, 1, "l", <<>>),
     Point(<<"a">>, Counter, 1, "l", <<"x">>),
     Point(<<"a", ".", "x">>, Gauge, 2, "", <<>>),
     Point(<<"b">>, Gauge, 0, "", <<>>)}

ClientKeys == {<<"a">>, <<"a", ".", "x">>, <<"b">>, <<"c">>}

ClientCalls ==
    {[op |-> "Set", key |-> <<>>, ptr |-> PtrTo(p)] : p \in ClientPoints}
      \cup {[op |-> o, key |-> k, ptr |-> PtrTo(NoPoint)] : o \in {"Get", "Delete"}, k \in ClientKeys}
      \cup {[op |-> "Keys", key |-> <<>>, ptr |-> PtrTo(NoPoint)]}

\* a client calls Set, Delete, Get or Keys; each starts by taking the lock:
\* ps.lock.Lock() in Set and Delete, ps.lock.RLock() in Get and Keys
ClientBegin(c) ==
    /\ cpc[c] = "idle"
    /\ nops < MaxClientOps
    /\ \E call \in ClientCalls :
        /\ ccall' = [ccall EXCEPT ![c] = call]
        /\ IF call.op \in {"Set", "Delete"}
           THEN CanLock(lock) /\ lock' = Lock(lock, c)
           ELSE CanRLock(lock) /\ lock' = RLock(lock, c)
    /\ cpc' = [cpc EXCEPT ![c] = "locked"]
    /\ nops' = nops + 1
    /\ UNCHANGED <<pointMap, ingestVars, scrapeVars, classVars, mainVars, cret, lastSet>>

\* Store.Set: ps.pointMap[p.Key()] = p; ps.lock.Unlock(); return nil
ClientSet(c) ==
    /\ cpc[c] = "locked"
    /\ ccall[c].op = "Set"
    /\ LET p == ccall[c].ptr.p IN
        /\ pointMap' = MapSet(pointMap, Key(p), ccall[c].ptr)
        /\ lastSet' = [k \in DOMAIN lastSet \cup {SpecKey(p)} |->
                          IF k = SpecKey(p) THEN p ELSE lastSet[k]]
        /\ cret' = [cret EXCEPT ![c] = [NoRet EXCEPT !.op = "Set", !.key = SpecKey(p)]]
    /\ lock' = Unlock(lock)
    /\ cpc' = [cpc EXCEPT ![c] = "idle"]
    /\ UNCHANGED <<ingestVars, scrapeVars, classVars, mainVars, ccall, nops>>

\* Store.Delete: delete(ps.pointMap, name); ps.lock.Unlock()
ClientDelete(c) ==
    /\ cpc[c] = "locked"
    /\ ccall[c].op = "Delete"
    /\ pointMap' = MapDelete(pointMap, ccall[c].key)
    /\ lastSet' = [k \in DOMAIN lastSet \ {ccall[c].key} |-> lastSet[k]]
    /\ cret' = [cret EXCEPT ![c] = [NoRet EXCEPT !.op = "Delete", !.key = ccall[c].key]]
    /\ lock' = Unlock(lock)
    /\ cpc' = [cpc EXCEPT ![c] = "idle"]
    /\ UNCHANGED <<ingestVars, scrapeVars, classVars, mainVars, ccall, nops>>

\* Store.Get: the pointer and nil, or &Point{} and ErrPointNotFound
StoreGet(m, name) ==
    IF name \in DOMAIN m THEN [found |-> TRUE, ptr |-> m[name]]
    ELSE [found |-> FALSE, ptr |-> PtrTo(NoPoint)]

ClientGet(c) ==
    /\ cpc[c] = "locked"
    /\ ccall[c].op = "Get"
    /\ LET g == StoreGet(pointMap, ccall[c].key) IN
        cret' = [cret EXCEPT ![c] = [NoRet EXCEPT !.op = "Get", !.key = ccall[c].key,
                                                   !.found = g.found, !.ptr = g.ptr]]
    /\ lock' = RUnlock(lock, c)
    /\ cpc' = [cpc EXCEPT ![c] = "idle"]
    /\ UNCHANGED <<pointMap, ingestVars, scrapeVars, classVars, mainVars, ccall, nops, lastSet>>

\* Store.Keys
ClientKeysCall(c) ==
    /\ cpc[c] = "locked"
    /\ ccall[c].op = "Keys"
    /\ cret' = [cret EXCEPT ![c] = [NoRet EXCEPT !.op = "Keys", !.keys = StoreKeys(pointMap)]]
    /\ lock' = RUnlock(lock, c)
    /\ cpc' = [cpc EXCEPT ![c] = "idle"]
    /\ UNCHANGED <<pointMap, ingestVars, scrapeVars, classVars, mainVars, ccall, nops, lastSet>>

\* ---- the store alone, called by clients
InitStore ==
    /\ StoreInit
    /\ IngestIdle
    /\ ScrapeIdle("off")
    /\ ClassIdle
    /\ ClientIdle("idle")
    /\ MainIdle

NextStore == \E c \in Clients :
    ClientBegin(c) \/ ClientSet(c) \/ ClientDelete(c) \/ ClientGet(c) \/ ClientKeysCall(c)

SpecStore == InitStore /\ [][NextStore]_vars

\* ---- scrapes while clients call the store: Describe and Collect with a
\* Set or Delete between their Keys() and their Get()
InitScrapeStore ==
    /\ StoreInit
    /\ IngestIdle
    /\ ScrapeIdle("idle")
    /\ ClassIdle
    /\ ClientIdle("idle")
    /\ MainIdle

ScrapeStoreStep == \E s \in Scrapers :
    ScrapeStart(s) \/ KeysRead(s) \/ GetRLock(s) \/ GetRead(s)

NextScrapeStore == NextStore \/ ScrapeStoreStep

SpecScrapeStore == InitScrapeStore /\ [][NextScrapeStore]_vars

Next == IngestStep(ScrapeLines, MaxScrapeRecords) \/ ScrapeStep

Spec == Init /\ [][Next]_vars

\* ---- scrapes while the run loop applies records of changing values
NextMix == IngestStep(MixLines, MaxMixRecords) \/ ScrapeStep

SpecMix == Init /\ [][NextMix]_vars

\* the run loop on two DynStat records whose points have the same key, and
\* on a line that is not a record, with the scrapes
SwapLines == {Record(PDynAB), Record(PDynA), Words(<<"a", "b", "c">>)}

NextSwap == IngestStep(SwapLines, MaxSwapRecords) \/ ScrapeStep

SpecSwap == Init /\ [][NextSwap]_vars

\* ---- scrapes whose consumer may stop receiving, and a read that may block
\* the records delivered meanwhile
StallLines == {Record(PInput1), Words(<<"a", "b", "c">>)}

\* Store.Get, second half, on its own: look the key up, ps.lock.RUnlock(),
\* return; a key that is gone is skipped.  Building the sample and sending
\* it on the channel is the next step (Emit), which waits for the consumer.
GetOnly(s) ==
    /\ spc[s] = "get_locked"
    /\ lock' = RUnlock(lock, s)
    /\ LET k == skeys[s][si[s]] IN
       IF k \notin DOMAIN pointMap
       THEN /\ si' = [si EXCEPT ![s] = @ + 1]
            /\ spc' = [spc EXCEPT ![s] = IF si[s] = Len(skeys[s]) THEN "done" ELSE "get"]
            /\ UNCHANGED sptr
       ELSE /\ sptr' = [sptr EXCEPT ![s] = pointMap[k]]
            /\ spc' = [spc EXCEPT ![s] = "emit"]
            /\ UNCHANGED si
    /\ UNCHANGED <<pointMap, ingestVars, sop, skeys, sout, classVars, clientVars, mainVars>>

NextStall ==
    \/ IngestStep(StallLines, MaxStallRecords)
    \/ \E s \in Scrapers :
         ScrapeStart(s) \/ KeysRead(s) \/ GetRLock(s) \/ GetOnly(s) \/ Emit(s)

\* Every goroutine gets to run, so a step that waits for nothing but the
\* scheduler or the lock is taken.  The read of the scanner, the arrival of
\* a request and the send on the channel wait for the outside and may never
\* happen.
SpecStall ==
    /\ Init
    /\ [][NextStall]_vars
    /\ WF_vars(RunStart \/ IngestSetLock \/ IngestSetStore \/ OnError)
    /\ \A s \in Scrapers : WF_vars(KeysRead(s) \/ GetRLock(s) \/ GetOnly(s))

\* ------------------------------------------------------------------- main
\* the records delivered while main runs
MainLines ==
    {Record(PInput1), Record(PNoName), Words(<<"a", "b", "c">>)}

\* Collect or Describe has ended, by returning or by the panic, and the
\* registry, which calls them for every request, can call again
ScrapeReturn(s) ==
    /\ spc[s] \in {"done", "panicked"}
    /\ nscr < MaxRescrapes
    /\ nscr' = nscr + 1
    /\ retKeys' = retKeys \cup (IF sop[s] = "Collect"
                                THEN {sout[s][i].key : i \in DOMAIN sout[s]} ELSE {})
    /\ spc' = [spc EXCEPT ![s] = "idle"]
    /\ sop' = [sop EXCEPT ![s] = "none"]
    /\ skeys' = [skeys EXCEPT ![s] = <<>>]
    /\ si' = [si EXCEPT ![s] = 0]
    /\ sptr' = [sptr EXCEPT ![s] = PtrTo(NoPoint)]
    /\ sout' = [sout EXCEPT ![s] = <<>>]
    /\ UNCHANGED <<pointMap, lock, ingestVars, classVars, clientVars, proc, runLog>>

\* main's goroutine after re.Run returned: the outcome is logged, nothing else
RunLogged ==
    /\ ipc = "done"
    /\ runLog = "none"
    /\ runLog' = IF retval = "err" THEN "exporter run ended with error"
                 ELSE "exporter run ended normally"
    /\ UNCHANGED <<pointMap, lock, ingestVars, scrapeVars, classVars, clientVars,
                   proc, nscr, retKeys>>

\* main's select, case sig := <-sigC: srv.Shutdown, cancel(), osExit(0)
Signal ==
    /\ proc = "running"
    /\ proc' = "exit 0: signal"
    /\ ctxDone' = IF ctxDone.fired THEN ctxDone
                  ELSE [fired |-> TRUE, pc |-> ipc, n |-> nread]
    /\ UNCHANGED <<pointMap, lock, errorPoint, ipc, nread, scanBytes, hres, pending, retval,
                   streamEnd, nhandled, nfailed, produced, silent, logged,
                   scrapeVars, classVars, clientVars, runLog, nscr, retKeys>>

\* main's select, case err := <-serverErrC: exitOnErr(err) for a real error;
\* for nil or http.ErrServerClosed main returns, which ends the process
ServerEnds ==
    /\ proc = "running"
    /\ proc' \in {"exit 1: server error", "exit 0: server closed"}
    /\ UNCHANGED <<pointMap, lock, ingestVars, scrapeVars, classVars, clientVars,
                   runLog, nscr, retKeys>>

\* the goroutines of a process that has not ended: the run loop, the
\* requests the server handles, and main itself
NextMain ==
    \/ proc = "running" /\ RunStart
    \/ proc = "running" /\ IngestSetLock
    \/ proc = "running" /\ IngestSetStore
    \/ proc = "running" /\ ScanRecord(MainLines, MaxMainRecords)
    \/ proc = "running" /\ ScanEnd
    \/ proc = "running" /\ OnError
    \/ proc = "running" /\ RunLogged
    \/ \E s \in Scrapers :
         \/ proc = "running" /\ ScrapeStart(s)
         \/ proc = "running" /\ KeysRead(s)
         \/ proc = "running" /\ GetRLock(s)
         \/ proc = "running" /\ GetRead(s)
         \/ proc = "running" /\ Emit(s)
         \/ proc = "running" /\ ScrapeReturn(s)
    \/ Signal
    \/ ServerEnds

SpecMain == Init /\ [][NextMain]_vars

\* ----------------------------------------------------------------- claims
ErrKey == <<"stats_line_errors">>

\* what a reader sees under each key: the fields of the point stored there
Visible == [k \in DOMAIN pointMap |-> Deref(pointMap[k])]

\* C1: a Collect or Describe that runs while the run loop calls Set never
\* panics: every invocation of every scrape runs to its end.
C1_NoPanic ==
    \A s \in Scrapers : spc[s] # "panicked"

\* C2: what is stored under a key changes only in a step taken while the
\* store's write lock is held (a Set replacing the entry); a stored Point is
\* never modified in place.
C2_ChangeOnlyUnderWriteLock ==
    [][Visible' # Visible => lock.w # NoThread]_vars

\* C3: after any Set and Delete calls the store holds one Point per key,
\* exactly the Point of the latest Set of that key not followed by a Delete
\* of it (value, type and label replaced, nothing summed or merged), and
\* Get(k) returns exactly that Point, or not-found when there is none.
C3_LastSetWins ==
    /\ [](/\ DOMAIN pointMap = DOMAIN lastSet
          /\ \A k \in DOMAIN lastSet : pointMap[k] = PtrTo(lastSet[k]))
    /\ [][\A c \in Clients :
            (cpc[c] = "locked" /\ ccall[c].op = "Get" /\ cpc'[c] = "idle") =>
                /\ cret'[c].found = (ccall[c].key \in DOMAIN lastSet)
                /\ cret'[c].found => cret'[c].ptr = PtrTo(lastSet[ccall[c].key])]_vars

\* a Set of key a with value 2, then a Set of the same key with value 1,
\* another type and a label name, then a Get of the key that returned the
\* second Point
C3_Witness ==
    /\ \A c \in Clients : cpc[c] = "idle"
    /\ nops = 3
    /\ <<"a">> \in DOMAIN pointMap
    /\ pointMap[<<"a">>] = PtrTo(Point(<<"a">>, Gauge, 1, "l", <<>>))
    /\ \E c, d \in Clients :
        /\ cret[c].op = "Set"
        /\ ccall[c].ptr = PtrTo(Point(<<"a">>, Counter, 2, "", <<>>))
        /\ cret[d].op = "Get"
        /\ cret[d].found
        /\ cret[d].ptr = PtrTo(Point(<<"a">>, Gauge, 1, "l", <<>>))

\* C4: between records and when run has returned, the value stored under
\* stats_line_errors is the number of records whose handling failed; a
\* failed record adds 1 to it and leaves every key of the store as it was,
\* and no other step changes it.
StoredErrors == IF ErrKey \in DOMAIN pointMap THEN Deref(pointMap[ErrKey]).Value ELSE -1

C4_ErrorsCounted ==
    /\ [](ipc \in {"scan", "done"} => StoredErrors = nfailed)
    /\ [][/\ (ipc = "onerr" /\ ipc' # ipc) =>
                /\ pointMap' = pointMap
                /\ Visible' = [Visible EXCEPT ![ErrKey].Value = @ + 1]
          /\ (ipc = "scan" /\ ipc' = "onerr") => Visible' = Visible
          /\ (ipc # "onerr" /\ ErrKey \in DOMAIN pointMap) => StoredErrors' = StoredErrors]_vars

C4_Witness ==
    /\ ipc = "done"
    /\ nread = 3
    /\ nfailed = 2
    /\ StoredErrors = 2
    /\ Cardinality(DOMAIN pointMap) > 1

\* C5: a payload that contains "processed" anywhere is classified Action.
C5_ProcessedIsAction ==
    (cKind # "none" /\ Contains(cBuf, <<"processed">>)) => cKind = TypeAction

C5_Witness ==
    /\ cKind = TypeAction
    /\ cDesc.form = "broken"
    /\ cDesc.name.s = <<"omkafka">>
    /\ cDesc.sig = {"processed", "submitted"}

\* C6: without "processed", a payload that is a JSON object with a string
\* name is classified by the name rule: omkafka is KafkaOutput, omfwd is
\* Forward, a name starting with mmkubernetes is Kubernetes, whatever other
\* signals the text holds.
C6_NameRuleWins ==
    (/\ cKind # "none"
     /\ cDesc.form = "object"
     /\ cDesc.name.kind = "string"
     /\ ~Contains(cBuf, <<"processed">>))
    => /\ cDesc.name.s = <<"omkafka">> => cKind = TypeOmkafka
       /\ cDesc.name.s = <<"omfwd">> => cKind = TypeForward
       /\ HasPrefix(cDesc.name.s, <<"mmkubernetes">>) => cKind = TypeKubernetes

C6_Witness ==
    /\ cKind = TypeOmkafka
    /\ cDesc.form = "object"
    /\ cDesc.name.s = <<"omkafka">>
    /\ ~cDesc.spaced
    /\ cDesc.sig = {"submitted", "enqueued"}

\* C7: without "processed" and without a matching name rule, the kind is
\* that of the first needle, in the fixed order, that occurs in the text,
\* and Unknown when none occurs.
Needles == <<
    [n |-> OmkafkaNeedle, t |-> TypeOmkafka],
    [n |-> <<"submitted">>, t |-> TypeInput],
    [n |-> <<"called.recvmmsg">>, t |-> TypeInputIMDUP],
    [n |-> <<"enqueued">>, t |-> TypeQueue],
    [n |-> <<"utime">>, t |-> TypeResource],
    [n |-> <<"dynstats">>, t |-> TypeDynStat],
    [n |-> <<"dynafile", SP, "cache">>, t |-> TypeDynafileCache],
    [n |-> <<"omfwd">>, t |-> TypeForward],
    [n |-> <<"mmkubernetes">>, t |-> TypeKubernetes] >>

FirstNeedle(text) ==
    LET hits == {i \in DOMAIN Needles : Contains(text, Needles[i].n)} IN
    IF hits = {} THEN TypeUnknown
    ELSE Needles[CHOOSE i \in hits : \A j \in hits : i <= j].t

NameRuleApplies(d) ==
    /\ d.form = "object"
    /\ d.name.kind = "string"
    /\ \/ d.name.s \in {<<"omkafka">>, <<"omfwd">>}
       \/ HasPrefix(d.name.s, <<"mmkubernetes">>)

C8_ReturnsAtEndOfInput ==
    /\ [](ipc = "done" =>
            /\ streamEnd # "open"
            /\ retval = "nil" <=> streamEnd = "eof"
            /\ retval = "err" <=> streamEnd = "error"
            /\ nhandled = nread)
    /\ [](ipc # "done" => retval = "none" /\ streamEnd = "open")
    /\ <>(ipc = "done")

C8_Witness ==
    /\ ipc = "done"
    /\ streamEnd = "error"
    /\ retval = "err"
    /\ nread = 2
    /\ nfailed = 2

\* C9: stats_line_errors is in the store, with value 0, from the first Set
\* of run on, before any record is read and for an empty input; after an
\* input of valid records that ends with end-of-file, run returns nil and
\* the keys are stats_line_errors and the keys of the points of the records.
C9_KeysAfterValidInput ==
    /\ (ipc \in {"scan", "onerr", "done"} \/ nread > 0) => ErrKey \in DOMAIN pointMap
    /\ (ipc \in {"scan", "done"} /\ nfailed = 0) => StoredErrors = 0
    /\ (ipc = "done" /\ streamEnd = "eof" /\ nfailed = 0) =>
            /\ retval = "nil"
            /\ StoreKeys(pointMap) = SortStrings({ErrKey} \cup produced)

C9_Witness ==
    /\ ipc = "done"
    /\ streamEnd = "eof"
    /\ nfailed = 0
    /\ nread = 3
    /\ Cardinality(DOMAIN pointMap) = 6

\* C10: a line is handled only when cutting it at its first three blanks
\* gives four fields; the payload is then everything after the third blank,
\* blanks included; a line with fewer blanks fails with the split error,
\* before it is classified, and nothing is Set.
Blanks(l) == {i \in DOMAIN l : l[i] = SP}
ThirdBlank(l) == CHOOSE i \in Blanks(l) : Cardinality({j \in Blanks(l) : j < i}) = 2

C10_SplitIntoFour ==
    nhandled > 0 =>
        IF Cardinality(Blanks(scanBytes)) >= 3
        THEN /\ hres.err # "split"
             /\ hres.buf = SubSeq(scanBytes, ThirdBlank(scanBytes) + 1, Len(scanBytes))
        ELSE /\ hres.err = "split"
             /\ hres.kind = TypeUnknown
             /\ hres.points = <<>>
             /\ pending = <<>>
             /\ ipc \in {"onerr", "scan", "done"}

C10_Witness ==
    /\ hres.err = "none"
    /\ Contains(hres.buf, <<SP>>)
    /\ ipc = "scan"
    /\ nhandled = 2

\* C11: handleStatLine is all-or-nothing per record.  It returns an error
\* exactly when the line does not split in four, the kind has no decoder or
\* the decoder fails; the step in which it returns an error leaves the key
\* set and every stored value as they were and leaves nothing to be Set;
\* once it has returned nil, every point the decoder produced is in the
\* store under its key.
HandledOk == nhandled > 0 /\ hres.err = "none"

C11_AllOrNothing ==
    /\ [](nhandled > 0 =>
            /\ hres.err = "split" <=> Len(SplitN(scanBytes, 4)) # 4
            /\ hres.err = "unknown" <=> (hres.err # "split" /\ ~HasDecoder(hres.kind))
            /\ hres.err # "none" => hres.points = <<>>)
    /\ [](ipc = "onerr" => hres.err # "none" /\ pending = <<>>)
    /\ [][(ipc = "scan" /\ ipc' = "onerr")
            => (DOMAIN pointMap' = DOMAIN pointMap /\ Visible' = Visible)]_vars
    /\ []((HandledOk /\ ipc \in {"scan", "done"}) =>
            \A i \in DOMAIN hres.points :
                /\ Key(hres.points[i]) \in DOMAIN pointMap
                /\ Deref(pointMap[Key(hres.points[i])]) = hres.points[i])

\* a record with several points was handled without error after a record
\* that failed, and the loop is back at the scanner
C11_Witness ==
    /\ HandledOk
    /\ ipc = "scan"
    /\ Len(hres.points) > 1
    /\ nfailed > 0
    /\ Key(hres.points[2]) \in DOMAIN pointMap

\* C12: silent changes the diagnostics only.  The flag is fixed when run
\* starts; the one step that reads it, the error branch, changes the error
\* count, the store and the position of the loop exactly as it would under
\* the other value of the flag and differs only in the diagnostic it prints;
\* so the stored error count is the number of failed records and the return
\* value follows from how the input ended, for silent and for not silent
\* alike, while the diagnostics printed are none when silent and one per
\* failed record otherwise.
C12_SilentOnlyDiagnostics ==
    /\ [][ipc # "off" => silent' = silent]_vars
    /\ [][IF ipc = "onerr" /\ ipc' # ipc
          THEN /\ errorPoint' = OnErrorPoint(errorPoint, ~silent)
               /\ pointMap' = pointMap
               /\ ipc' = "scan"
               /\ retval' = retval
               /\ logged' = IF silent THEN logged ELSE logged + 1
          ELSE logged' = logged]_vars
    /\ [](ipc \in {"scan", "done"} =>
            /\ StoredErrors = nfailed
            /\ logged = IF silent THEN 0 ELSE nfailed)
    /\ [](ipc = "done" => retval = IF streamEnd = "error" THEN "err" ELSE "nil")

\* a silent run ended after two failed records and one valid record: both
\* failures are counted and nothing was printed
C12_Witness ==
    /\ ipc = "done"
    /\ silent
    /\ nfailed = 2
    /\ nread = 3
    /\ StoredErrors = 2
    /\ logged = 0
    /\ Cardinality(DOMAIN pointMap) > 1

\* C13: Get(k) returns the not-found error, with an empty Point, exactly
\* when k is absent, that is when no Set of k came before or a Delete of k
\* came after the last one; a Delete of k leaves k absent, whatever was
\* stored under it, and leaves every other key as it was, and a Delete of
\* an absent key leaves the store as it was.
Returns(c, op) == cpc[c] = "locked" /\ ccall[c].op = op /\ cpc'[c] = "idle"

C13_GetFailsWhenAbsent ==
    [][\A c \in Clients :
        /\ Returns(c, "Get") =>
            /\ ~cret'[c].found <=> ccall[c].key \notin DOMAIN lastSet
            /\ ~cret'[c].found => cret'[c].ptr = PtrTo(NoPoint)
        /\ Returns(c, "Delete") =>
            /\ ccall[c].key \notin DOMAIN pointMap'
            /\ DOMAIN pointMap' = DOMAIN pointMap \ {ccall[c].key}
            /\ \A k \in DOMAIN pointMap' : pointMap'[k] = pointMap[k]
            /\ ccall[c].key \notin DOMAIN pointMap => pointMap' = pointMap]_vars

\* one client Set key a; the other called Delete(a) and then Get(a), which
\* returned not-found
C13_Witness ==
    /\ \A c \in Clients : cpc[c] = "idle"
    /\ nops = 3
    /\ <<"a">> \notin DOMAIN pointMap
    /\ \E c, d \in Clients :
        /\ cret[c].op = "Set"
        /\ cret[c].key = <<"a">>
        /\ cret[d].op = "Get"
        /\ cret[d].key = <<"a">>
        /\ ~cret[d].found

\* C14: the list Keys() returns holds exactly the keys the store has at the
\* instant the call reads the map, an instant within the call during which
\* no Set or Delete can change the map; each key occurs once and the list
\* is in ascending lexicographic order, whatever order the Set calls had.
C14_KeysSnapshotSorted ==
    [][\A c \in Clients :
        /\ (cpc[c] = "locked" /\ ccall[c].op = "Keys") =>
            /\ pointMap' = pointMap
            /\ \A d \in Clients : ~Returns(d, "Set") /\ ~Returns(d, "Delete")
        /\ Returns(c, "Keys") =>
            LET keys == cret'[c].keys IN
            /\ {keys[i] : i \in DOMAIN keys} = DOMAIN pointMap
            /\ {keys[i] : i \in DOMAIN keys} = DOMAIN lastSet
            /\ Len(keys) = Cardinality(DOMAIN pointMap)
            /\ \A i, j \in DOMAIN keys : i < j => KeyLess(keys[i], keys[j])]_vars

\* keys a and b were Set, in either order, and Keys() returned a before b
C14_Witness ==
    /\ \A c \in Clients : cpc[c] = "idle"
    /\ nops = 3
    /\ \E c, d \in Clients :
        /\ c # d
        /\ cret[c].op = "Keys"
        /\ cret[c].keys = << <<"a">>, <<"b">> >>
        /\ cret[d].op = "Set"
        /\ cret[d].key = <<"a">>
        /\ ccall[c].op = "Keys"

\* C15: a key deleted between the Keys() snapshot of a scrape and its Get()
\* is skipped without failure: the Get of every snapshot key lets the scrape
\* go on; Collect sends nothing for a key that is gone and one sample for
\* every snapshot key that is still there, and Describe sends the scrapes
\* descriptor first and then nothing for a key that is gone and one
\* descriptor for every snapshot key that is still there.
SnapshotKeyGone(s) == \E i \in DOMAIN skeys[s] : skeys[s][i] \notin DOMAIN pointMap

C15_DeletedKeySkipped ==
    [][\A s \in Scrapers :
        /\ (spc[s] = "get_locked" /\ spc'[s] # "get_locked" /\ SnapshotKeyGone(s)) =>
            LET k == skeys[s][si[s]] IN
            /\ spc'[s] \in {"get", "done"}
            /\ sout'[s] =
                 IF k \notin DOMAIN pointMap THEN sout[s]
                 ELSE Append(sout[s], IF sop[s] = "Collect"
                                      THEN Metric(k, Deref(pointMap[k]))
                                      ELSE Desc(k, Deref(pointMap[k])))
        /\ (spc'[s] # "idle" /\ sop'[s] = "Describe") => sout'[s][1] = ScrapesDesc]_vars

\* C16: a valid record delivered twice leaves the store as one delivery
\* leaves it.  After each delivery of the record, the first and the
\* repeated one alike, the keys are stats_line_errors and the keys of the
\* record's points, each key holds the record's point with the record's
\* value, Counter and Gauge alike, and the error count is 0; a Resource
\* record gives 9 keys each time.  No step taken for a repeated delivery
\* changes a key or a value of the store.
RecordKeys == {Key(hres.points[i]) : i \in DOMAIN hres.points}

C16_SecondIngestChangesNothing ==
    /\ []((HandledOk /\ ipc \in {"scan", "done"} /\ nfailed = 0) =>
            /\ DOMAIN pointMap = {ErrKey} \cup RecordKeys
            /\ \A i \in DOMAIN hres.points :
                  Visible[Key(hres.points[i])] = hres.points[i]
            /\ StoredErrors = 0
            /\ hres.kind = TypeResource => Cardinality(RecordKeys) = 9
            /\ Cardinality(RecordKeys) = Len(hres.points))
    /\ [][(nread' >= 2 /\ nfailed' = 0) => Visible' = Visible]_vars

\* the Resource record was delivered twice; the store holds its 9 keys and
\* stats_line_errors, the Counter resource_utime.x with value 2 and the
\* Gauge resource_maxrss.x with value 1
C16_Witness ==
    /\ ipc = "scan"
    /\ nread = 2
    /\ hres.kind = TypeResource
    /\ Cardinality(DOMAIN pointMap) = 10
    /\ <<"resource_utime", ".", "x">> \in DOMAIN pointMap
    /\ Visible[<<"resource_utime", ".", "x">>] =
          Point(<<"resource_utime">>, Counter, 2, "resource", <<"x">>)
    /\ <<"resource_maxrss", ".", "x">> \in DOMAIN pointMap
    /\ Visible[<<"resource_maxrss", ".", "x">>] =
          Point(<<"resource_maxrss">>, Gauge, 1, "resource", <<"x">>)

\* C17 as stated: decoding a DynStat payload returns one Point per entry of
\* its values map, named dynstat_<name>, labelled with the counter name and
\* carrying its value, and a second decode of the same bytes returns the
\* list in the same order.
DynStatDecoded == nhandled > 0 /\ hres.err = "none" /\ hres.kind = TypeDynStat
PointSet(h) == {h.points[i] : i \in DOMAIN h.points}
DynStatLine == Words(<<"a", "b", "c">>) \o <<SP>> \o PDynStat
DynStatWanted ==
    {Point(<<"dynstat_", "g">>, Counter, 1, "counter", <<"a">>),
     Point(<<"dynstat_", "g">>, Counter, 2, "counter", <<"b">>)}

C18_BadPayloadIsCounted ==
    /\ [](nhandled > 0 =>
            \A k \in DOMAIN BadLine :
                scanBytes = BadLine[k] =>
                    /\ hres.kind = k
                    /\ HasDecoder(k)
                    /\ hres.err = "decode"
                    /\ hres.points = <<>>)
    /\ []((nhandled > 0 /\ scanBytes \in MisfitLines) =>
            /\ HasDecoder(hres.kind)
            /\ hres.err = "decode"
            /\ hres.points = <<>>)
    /\ [][(nread' = nread + 1 /\ hres'.err = "decode") =>
            /\ ipc' = "onerr"
            /\ pending' = <<>>
            /\ Visible' = Visible]_vars
    /\ [][(ipc = "onerr" /\ ipc' # ipc) =>
            /\ ipc' = "scan"
            /\ StoredErrors' = StoredErrors + 1
            /\ DOMAIN pointMap' = DOMAIN pointMap]_vars
    /\ [](ipc \in {"scan", "done"} => StoredErrors = nfailed)

\* the Kubernetes record that is no JSON text was handled after another
\* record that failed: both are counted, nothing else is stored and the
\* loop is back at the scanner
C18_Witness ==
    /\ ipc = "scan"
    /\ nread = 2
    /\ scanBytes = BadLine[TypeKubernetes]
    /\ hres.kind = TypeKubernetes
    /\ hres.err = "decode"
    /\ StoredErrors = 2
    /\ DOMAIN pointMap = {ErrKey}

\* C19: when the root context is cancelled while the run loop waits in the
\* scanner and no record has been delivered, and no record arrives after
\* that, the loop returns an error, not nil.
C19_CancelWhileBlockedIsError ==
    (/\ ctxDone.fired
     /\ ctxDone.pc = "scan"
     /\ ctxDone.n = 0
     /\ nread = 0
     /\ ipc = "done") => retval = "err"

\* C20: cancellation is observed at record boundaries: once the root context
\* is cancelled, at most one further record, the one the pending read
\* delivers, is handled and applied to the store, and the loop starts no
\* read after that one.
C20_AtMostOneRecordAfterCancel ==
    ctxDone.fired =>
        /\ nread <= ctxDone.n + 1
        /\ nhandled <= ctxDone.n + 1

\* C21: Run never ends the process.  The step in which run returns, on end
\* of input and on a stream error alike, hands nil or the error to its
\* caller and leaves the process running; main only logs the outcome; the
\* process ends only in main's signal branch or when the server ends.  Once
\* run has returned, the store keeps what it holds, a request can take the
\* read lock, and every sample a Collect sends carries the stored value.
ExitByMain == {"exit 0: signal", "exit 1: server error", "exit 0: server closed"}

QueueRecs == {
    [line |-> Record(PQueue1), name |-> MainQ,
     vals |-> <<1, 2, 0, 1, 2, 2>>],
    [line |-> Record(PQueue2), name |-> MainQ,
     vals |-> <<0, 2, 1, 2, 0, 1>>],
    [line |-> Record(PQueue3), name |-> <<"q">>,
     vals |-> <<2, 1, 0, 0, 0, 0>>] }

QueueWanted(r) == <<
    Point(<<"queue_size">>, Gauge, r.vals[1], "queue", r.name),
    Point(<<"queue_enqueued">>, Counter, r.vals[2], "queue", r.name),
    Point(<<"queue_full">>, Counter, r.vals[3], "queue", r.name),
    Point(<<"queue_discarded_full">>, Counter, r.vals[4], "queue", r.name),
    Point(<<"queue_discarded_not_full">>, Counter, r.vals[5], "queue", r.name),
    Point(<<"queue_max_size">>, Gauge, r.vals[6], "queue", r.name) >>

QueueKeys(n) ==
    {<<m>> \o <<".">> \o n : m \in {"queue_size", "queue_enqueued", "queue_full",
                                    "queue_discarded_full", "queue_discarded_not_full",
                                    "queue_max_size"}}

C22_QueueRecordStored ==
    \A r \in QueueRecs :
        (nhandled > 0 /\ scanBytes = r.line) =>
            /\ hres.err = "none"
            /\ hres.kind = TypeQueue
            /\ ipc \in {"scan", "done"} =>
                /\ QueueKeys(r.name) \subseteq DOMAIN pointMap
                /\ \A i \in 1..6 :
                    /\ <<QueueWanted(r)[i].Name[1], ".">> \o r.name \in QueueKeys(r.name)
                    /\ Visible[<<QueueWanted(r)[i].Name[1], ".">> \o r.name] = QueueWanted(r)[i]
                /\ (nfailed = 0 /\ produced = QueueKeys(r.name)) =>
                        DOMAIN pointMap = {ErrKey} \cup QueueKeys(r.name)

\* the second record named main Q is being stored after the first: no key
\* has been added, five keys hold the second record's values and
\* queue_max_size, whose Set is the one still to come, holds the first's
C22_Witness ==
    /\ nread = 2
    /\ nfailed = 0
    /\ scanBytes = Record(PQueue2)
    /\ ipc = "set"
    /\ Len(pending) = 1
    /\ DOMAIN pointMap = {ErrKey} \cup QueueKeys(MainQ)
    /\ Visible[<<"queue_size", ".">> \o MainQ] =
          Point(<<"queue_size">>, Gauge, 0, "queue", MainQ)
    /\ Visible[<<"queue_full", ".">> \o MainQ].Value = 1
    /\ Visible[<<"queue_max_size", ".">> \o MainQ].Value = 2

\* C23: no store lock is held across more than one map operation.  A
\* scrape holds the read lock only inside Keys() and inside a Get(): not
\* between them, not while it builds a sample and not while it sends; the
\* run loop holds the write lock only inside a Set: not while it reads,
\* classifies or decodes; whoever holds the lock releases it with its next
\* step.  So every Set the run loop has begun completes although a scrape
\* waits at its send for ever, and every Keys() and Get() of a scrape
\* completes although the run loop waits in its read for ever.
C23_LockPerMapOperation ==
    /\ [](\A s \in Scrapers : s \in lock.r <=> spc[s] \in {"keys_locked", "get_locked"})
    /\ [](lock.w = Ingest <=> ipc = "set_locked")
    /\ [](lock.w \in {Ingest, NoThread})
    /\ [][/\ (lock.w = Ingest /\ ipc' # ipc) => lock'.w = NoThread
          /\ \A s \in Scrapers : (s \in lock.r /\ spc'[s] # spc[s]) => s \notin lock'.r]_vars
    /\ (ipc \in {"set", "set_locked"}) ~> (ipc = "scan")
    /\ \A s \in Scrapers :
          (spc[s] \in {"keys_locked", "get", "get_locked"}) ~> (spc[s] \in {"emit", "done"})

\* a scrape has the point of its first key and waits at its send, holding
\* no lock, and the run loop is inside the Set of a record's point, holding
\* the write lock
C23_Witness ==
    /\ ipc = "set_locked"
    /\ lock = Lock(Unlocked, Ingest)
    /\ nread = 1
    /\ Len(pending) = 1
    /\ \E s \in Scrapers :
        /\ spc[s] = "emit"
        /\ sop[s] = "Collect"
        /\ si[s] = 1
        /\ sout[s] = <<>>

\* C24: a scrape is not atomic with respect to one record.  Each Set of the
\* record's loop changes the one key it stores and leaves every other key,
\* those of the same record included, as it was; between two Sets of one
\* record, as before the first, the write lock is free, so a Get of a scrape
\* can come in between,
\* and the store then holds the record's value under the keys already Set
\* while a key still to be Set holds what it held before the record.  The
\* interleaving in which one Collect sends the new value for one key and
\* the old value for another key of the same record is C24_Witness.
MidRecord == nhandled > 0 /\ ipc = "set" /\ Len(pending) < Len(hres.points)

C24_SetsOfOneRecordInterleave ==
    /\ []((nhandled > 0 /\ ipc = "set") => lock.w = NoThread)
    /\ [](MidRecord =>
            /\ pending # <<>>
            /\ lock.w = NoThread
            /\ \A i \in 1..(Len(hres.points) - Len(pending)) :
                  Visible[Key(hres.points[i])] = hres.points[i])
    /\ [][(ipc = "set_locked" /\ ipc' # ipc) =>
            /\ DOMAIN pointMap' = DOMAIN pointMap \cup {Key(Deref(Head(pending)))}
            /\ Visible'[Key(Deref(Head(pending)))] = Deref(Head(pending))
            /\ \A k \in DOMAIN pointMap :
                  k # Key(Deref(Head(pending))) => Visible'[k] = Visible[k]
            /\ \A i \in 2..Len(pending) :
                  Key(Deref(pending[i])) \in DOMAIN pointMap =>
                      Visible'[Key(Deref(pending[i]))] = Visible[Key(Deref(pending[i]))]]_vars
    /\ [][\A s \in Scrapers :
            (MidRecord /\ spc[s] = "get") => ENABLED GetRLock(s)]_vars

\* the record with called.recvmmsg 2 and msgs.received 1 came after the
\* record with called.recvmmsg 1 and msgs.received 2, and one Collect has
\* sent input_called_recvmmsg.w with the value 2 of the later record and
\* input_received.w with the value 2 of the earlier one
C24_Witness ==
    /\ nread = 2
    /\ scanBytes = Record(PUdp2)
    /\ \E s \in Scrapers :
        /\ sop[s] = "Collect"
        /\ \E i, j \in DOMAIN sout[s] :
            /\ sout[s][i].key = <<"input_called_recvmmsg", ".", "w">>
            /\ sout[s][i].value = 2
            /\ sout[s][j].key = <<"input_received", ".", "w">>
            /\ sout[s][j].value = 2

\* the sample a Collect has just sent
LastSent(s) == sout'[s][Len(sout'[s])]

\* C25: every sample a Collect emits for a key k carries the name, the
\* type, the value and the label value of one Point that is stored under k
\* when the Collect reads it (after the Collect's start, not after the
\* emission), never fields of two different Sets; a Collect emits at most one
\* sample per key, in ascending key order.
C25_SampleOfOnePoint ==
    /\ [](\A s \in Scrapers : \A i, j \in DOMAIN sout[s] :
            (sop[s] = "Collect" /\ i < j) => KeyLess(sout[s][i].key, sout[s][j].key))
    /\ [][\A s \in Scrapers :
            (sop[s] = "Collect" /\ sout'[s] # sout[s]) =>
                /\ Len(sout'[s]) = Len(sout[s]) + 1
                /\ SubSeq(sout'[s], 1, Len(sout[s])) = sout[s]
                /\ LastSent(s).key = skeys[s][si[s]]
                /\ LastSent(s).key \in DOMAIN pointMap
                /\ LET p == Visible[LastSent(s).key]
                   IN  /\ LastSent(s).name = p.Name
                       /\ LastSent(s).type = p.Type
                       /\ LastSent(s).value = p.Value
                       /\ LastSent(s).labels =
                            (IF p.LabelValue = <<>> THEN <<>> ELSE <<p.LabelValue>>)]_vars

\* a Collect has sent the point of the first DynStat record for the key that
\* the second record has replaced since, and the error counter after it
C25_Witness ==
    \E s \in Scrapers :
        /\ sop[s] = "Collect" /\ Len(sout[s]) = 2
        /\ sout[s][1].name = <<"dynstat_", "a", ".", "b">>
        /\ sout[s][1].labels = << <<"c">> >>
        /\ sout[s][1].key \in DOMAIN pointMap
        /\ Visible[sout[s][1].key].Name = <<"dynstat_", "a">>
        /\ sout[s][2].key = <<"stats_line_errors">>

\* the keys a scrape has sent so far, and the keys of its Keys() snapshot
SentKeys(s) == {sout[s][i].key : i \in DOMAIN sout[s]}
SnapshotKeys(s) == {skeys[s][i] : i \in DOMAIN skeys[s]}

\* C26: a key first Set after a Collect has taken its Keys() snapshot is not
\* emitted by that Collect (a Collect emits keys of its snapshot only), but
\* it is emitted by every Collect that starts after that Set has returned:
\* the snapshot of such a Collect holds every key stored when it started,
\* and a Collect that has ended has emitted every key of its snapshot (the
\* ingest path deletes none).
C26_NewKeyInNextCollect ==
    /\ [](\A s \in Scrapers : sop[s] = "Collect" => SentKeys(s) \subseteq SnapshotKeys(s))
    /\ [][\A s \in Scrapers :
            (spc[s] = "idle" /\ spc'[s] = "keys_locked") =>
                (lock'.w = NoThread /\ s \in lock'.r)]_vars
    /\ [][\A s \in Scrapers :
            (spc[s] = "keys_locked" /\ spc'[s] # spc[s]) =>
                SnapshotKeys(s)' = DOMAIN pointMap]_vars
    /\ [](\A s \in Scrapers :
            (sop[s] = "Collect" /\ spc[s] \in {"done", "panicked"}) =>
                SnapshotKeys(s) \subseteq SentKeys(s))

\* C27: the ingest path never removes a key: while Run runs the key set of
\* the store only grows, so every series that a Collect emitted before is
\* in the Keys() snapshot of every later Collect, a Collect that runs to its
\* end emits every key of its snapshot, and the value of a sample is the
\* value stored under its key when the Collect reads it, also after the
\* input has stopped.
C27_KeysOnlyGrow ==
    /\ [][DOMAIN pointMap \subseteq DOMAIN pointMap']_vars
    /\ [](retKeys \subseteq DOMAIN pointMap)
    /\ [][\A s \in Scrapers :
            (spc[s] = "keys_locked" /\ spc'[s] # spc[s]) =>
                /\ retKeys \subseteq SnapshotKeys(s)'
                /\ \A t \in Scrapers :
                      sop[t] = "Collect" => SentKeys(t) \subseteq SnapshotKeys(s)']_vars
    /\ [](\A s \in Scrapers :
            (sop[s] = "Collect" /\ spc[s] = "done") => SentKeys(s) = SnapshotKeys(s))
    /\ [][\A s \in Scrapers :
            (sop[s] = "Collect" /\ sout'[s] # sout[s] /\ sout'[s] # <<>>) =>
                /\ LastSent(s).key \in DOMAIN pointMap
                /\ LastSent(s).value = Visible[LastSent(s).key].Value]_vars

\* Run has returned at the end of the input; a Collect that started after an
\* earlier one returned has emitted the same two series, the input's and the
\* error counter
C27_Witness ==
    \E s \in Scrapers :
        /\ ipc = "done" /\ nscr = 1
        /\ sop[s] = "Collect" /\ spc[s] = "done"
        /\ Cardinality(retKeys) = 2
        /\ retKeys = SentKeys(s)

\* C28: for every Point the ingest path puts into the store, Collect
\* supplies as many label values (none when the label value is empty, else
\* one) as the Point's description declares variable labels (none when the
\* label name is empty, else one), so that building the sample does not
\* panic.
C28_LabelCountsAgree ==
    \A k \in DOMAIN pointMap :
        /\ Len(LabelValues(Visible[k])) = Len(VariableLabels(Visible[k]))
        /\ ~MustNewConstMetricPanics(Visible[k])

\* C29: two Points with different (Name, LabelValue) pairs have different
\* Keys, so that ingesting a record never overwrites a point of another
\* metric or label: whatever a Set replaces under a key has the name and the
\* label value of the point it stores (the points of the DynStat bucket a.b,
\* counter c, and of the bucket a, counter b.c, are two entries).
C29_SetKeepsNameAndLabel ==
    [][\A k \in DOMAIN pointMap \cap DOMAIN pointMap' :
            /\ Visible'[k].Name = Visible[k].Name
            /\ Visible'[k].LabelValue = Visible[k].LabelValue]_vars

\* the length of each fixed-schema kind's list of points
FixedCount(k) ==
    CASE k = TypeAction -> 5
      [] k = TypeInput -> 1
      [] k = TypeInputIMDUP -> 3
      [] k = TypeQueue -> 6
      [] k = TypeResource -> 9
      [] k = TypeDynafileCache -> 6
      [] k = TypeForward -> 1
      [] k = TypeKubernetes -> 9

\* the last record read is the one that carries none of the fields of kind k
IncidentalHandled(k) == nhandled > 0 /\ scanBytes = IncidentalLine[k]

\* C30: a payload that is a valid JSON object and carries none of the
\* fields of the fixed-schema kind it is classified as decodes without
\* error to the kind's full list of points in its fixed order (5 Action,
\* 1 Input, 3 InputUDPWorker, 6 Queue, 9 Resource, 6 DynafileCache,
\* 1 Forward, 9 Kubernetes), every value 0; the record is not counted in
\* stats_line_errors and its points are stored.
C30_AbsentFieldsDecodeToZero ==
    /\ [](\A k \in DOMAIN IncidentalLine :
            IncidentalHandled(k) =>
                /\ hres.err = "none"
                /\ hres.kind = k
                /\ ipc # "onerr"
                /\ Len(hres.points) = FixedCount(k)
                /\ \A i \in DOMAIN hres.points :
                      /\ hres.points[i].Value = 0
                      /\ hres.points[i].Name = statDecoders[k][i].name
                      /\ hres.points[i].Type = statDecoders[k][i].type
                /\ ipc \in {"scan", "done"} =>
                      \A i \in DOMAIN hres.points :
                          /\ Key(hres.points[i]) \in DOMAIN pointMap
                          /\ Visible[Key(hres.points[i])] = hres.points[i])
    /\ [][\A k \in DOMAIN IncidentalLine :
            (nread' = nread + 1 /\ scanBytes' = IncidentalLine[k]) =>
                (nfailed' = nfailed /\ errorPoint' = errorPoint)]_vars
    /\ []((\E k \in DOMAIN IncidentalLine : IncidentalHandled(k)) =>
            errorPoint.Value = nfailed)

\* {"msg":"utime"} was read after {"msg":"mmkubernetes"}: eighteen zero
\* points are stored and the error counter is 0
C30_Witness ==
    /\ nread = 2 /\ nfailed = 0
    /\ IncidentalHandled(TypeResource)
    /\ ipc = "scan"
    /\ Len(hres.points) = 9
    /\ errorPoint.Value = 0
    /\ Cardinality(DOMAIN pointMap) = 19
    /\ \A k \in DOMAIN pointMap : Visible[k].Value = 0

====
